---- MODULE Spec2Model ----
(***************************************************************************)
(* Model of the HTML converter of notionapi (package tohtml2) and of the   *)
(* inline-block parser (package notionapi).                                *)
(*                                                                         *)
(* A Go string is a sequence of one-character strings, so that escaping,   *)
(* splitting and concatenation are computed on characters as the code      *)
(* computes them.  A *bytes.Buffer is the sequence of characters written   *)
(* to it; the nil buffer is NilBuffer.                                     *)
(***************************************************************************)
EXTENDS Integers, Sequences, FiniteSets, TLC

VARIABLES
    c,        \* the Converter (its fields, plus the marker of a panic unwinding)
    page,     \* c.Page: the page being converted (its root block)
    env,      \* what the operating system answers: os.Stat, exec.LookPath, the katex process
    input,    \* the argument of the operation, or the options the Converter was given
    ret,      \* what the operation returned
    earlier   \* what the earlier calls of ToHTML on c returned, oldest first

vars == <<c, page, env, input, ret, earlier>>

(***************************************************************************)
(* Bounds of the model.                                                    *)
(***************************************************************************)
MaxText == 1
MaxAttrs == 2
MaxSpans == 2

(***************************************************************************)
(* Strings.                                                                *)
(***************************************************************************)
\* Characters that occur in the texts drawn as inputs.
TextChars == {"a", "<", ">", "&", "'", "\"", ","}

RECURSIVE SeqsUpTo(_, _)
SeqsUpTo(S, n) ==
    IF n = 0 THEN {<<>>}
    ELSE LET shorter == SeqsUpTo(S, n - 1)
         IN  shorter \cup {Append(s, x) : s \in {t \in shorter : Len(t) = n - 1}, x \in S}

HasPrefix(s, p) == Len(s) >= Len(p) /\ SubSeq(s, 1, Len(p)) = p

RECURSIVE Concat(_)
Concat(ss) == IF ss = <<>> THEN <<>> ELSE Head(ss) \o Concat(Tail(ss))

Reverse(s) == [i \in 1..Len(s) |-> s[Len(s) + 1 - i]]

\* strings.Replace(s, old, new, -1) for a non-empty old
RECURSIVE ReplaceAll(_, _, _)
ReplaceAll(s, old, new) ==
    IF Len(s) < Len(old) THEN s
    ELSE IF HasPrefix(s, old)
         THEN new \o ReplaceAll(SubSeq(s, Len(old) + 1, Len(s)), old, new)
         ELSE <<Head(s)>> \o ReplaceAll(Tail(s), old, new)

\* strings.Split(s, sep) for a one-character sep: never empty, "" gives [""]
RECURSIVE SplitFrom(_, _, _)
SplitFrom(s, sep, cur) ==
    IF s = <<>> THEN <<cur>>
    ELSE IF Head(s) = sep THEN <<cur>> \o SplitFrom(Tail(s), sep, <<>>)
         ELSE SplitFrom(Tail(s), sep, Append(cur, Head(s)))

Split(s, sep) == SplitFrom(s, sep, <<>>)

\* fmt's %d
Digit(n) == <<"0", "1", "2", "3", "4", "5", "6", "7", "8", "9">>[n + 1]

RECURSIVE ItoaNat(_)
ItoaNat(n) == IF n < 10 THEN <<Digit(n)>> ELSE Append(ItoaNat(n \div 10), Digit(n % 10))

Itoa(n) == IF n < 0 THEN <<"-">> \o ItoaNat(0 - n) ELSE ItoaNat(n)

\* html.EscapeString, one character
HtmlEscapeChar(ch) ==
    CASE ch = "&"  -> <<"&","a","m","p",";">>
      [] ch = "'"  -> <<"&","#","3","9",";">>
      [] ch = "<"  -> <<"&","l","t",";">>
      [] ch = ">"  -> <<"&","g","t",";">>
      [] ch = "\"" -> <<"&","#","3","4",";">>
      [] OTHER     -> <<ch>>

RECURSIVE HtmlEscapeString(_)
HtmlEscapeString(s) ==
    IF s = <<>> THEN <<>> ELSE HtmlEscapeChar(Head(s)) \o HtmlEscapeString(Tail(s))

EscapeHTML(s) ==
    ReplaceAll(ReplaceAll(HtmlEscapeString(s), <<"&","#","3","9",";">>, <<"&","#","x","2","7",";">>), <<"&","#","3","4",";">>, <<"&","q","u","o","t",";">>)

(***************************************************************************)
(* The Converter and its buffer stack.                                     *)
(***************************************************************************)
NilBuffer == <<"nil *bytes.Buffer">>
NoHook == "nil"

\* NewConverter(page): every field but Page has its zero value.  PanicOnFailures is the
\* package variable of notionapi that MaybePanic reads; katexCalls counts the katex processes
\* run so far, pushes the calls of PushNewBuffer and trace the calls of RenderBlock, of the
\* override hook, of DefaultRenderFunc and of RenderChildren, the end of the loop of
\* RenderChildren and its return (history); panicked marks a panic
\* unwinding.
NewConverter ==
    [ Buf |-> NilBuffer, bufs |-> <<>>, ListNo |-> 0,
      NotionCompat |-> FALSE, UseKatexToRenderEquation |-> FALSE, KatexPath |-> <<>>,
      AddHeaderAnchor |-> FALSE, RenderBlockOverride |-> NoHook, RewriteURL |-> NoHook,
      FullHTML |-> FALSE, CurrBlocks |-> <<>>, CurrBlockIdx |-> 0,
      didImportKatexCSS |-> FALSE,
      PanicOnFailures |-> FALSE, katexCalls |-> 0, pushes |-> 0, trace |-> <<>>,
      panicked |-> FALSE ]

\* The operating system: whether os.Stat(c.KatexPath) succeeds, what exec.LookPath("katex")
\* finds (<<>>: an error), and how the i-th katex process of the run ends.
NoEnv == [StatOK |-> FALSE, LookPath |-> <<>>, Katex |-> <<>>]

\* A run-time panic: the goroutine unwinds and nothing after it is executed.
Panic(cv) == [cv EXCEPT !.panicked = TRUE]

\* variant: the new buffer starts with the text of the active one
PushNewBufferCopying(cv) ==
    IF cv.panicked THEN cv
    ELSE [cv EXCEPT !.bufs = Append(@, cv.Buf), !.pushes = @ + 1]

PushNewBuffer(cv) ==
    IF cv.panicked THEN cv
    ELSE [cv EXCEPT !.bufs = Append(@, cv.Buf), !.Buf = <<>>, !.pushes = @ + 1]

\* variant: with no buffer left, the nil buffer becomes the active one and the call returns
PopBufferNilWhenEmpty(cv) ==
    IF cv.panicked THEN cv
    ELSE IF Len(cv.bufs) = 0 THEN [cv EXCEPT !.Buf = NilBuffer]
    ELSE [cv EXCEPT !.Buf = cv.bufs[Len(cv.bufs)], !.bufs = SubSeq(@, 1, Len(@) - 1)]

\* The Converter after PopBuffer; c.bufs[n-1] with n = 0 is an index out of range.
PopBuffer(cv) ==
    IF cv.panicked THEN cv
    ELSE IF Len(cv.bufs) = 0 THEN Panic(cv)
    ELSE [cv EXCEPT !.Buf = cv.bufs[Len(cv.bufs)], !.bufs = SubSeq(@, 1, Len(@) - 1)]

\* What PopBuffer returns: the buffer that was active.
PopBufferResult(cv) == cv.Buf

\* Printf with the formatting already applied to s.
Printf(cv, s) ==
    IF cv.panicked THEN cv
    ELSE IF cv.Buf = NilBuffer THEN Panic(cv)
    ELSE [cv EXCEPT !.Buf = @ \o s]

(***************************************************************************)
(* Hooks supplied by the caller.  SampleRewrite is one URL-rewrite hook.   *)
(***************************************************************************)
SampleRewrite == "rewrite"
RewriteHooks == {NoHook, SampleRewrite}

\* SampleOverride is one override hook: it handles the text blocks, writing a mark for each.
SampleOverride == "override"
OverrideHooks == {NoHook, SampleOverride}
\* what the hook returns for a block
Handles(hook, block) == hook = SampleOverride /\ block.Type = "text"

ApplyRewriteURL(cv, uri) ==
    IF cv.RewriteURL = NoHook THEN uri ELSE <<"/","r","/">> \o uri

(***************************************************************************)
(* Blocks, text spans and attributes (package notionapi).                  *)
(* A block is [Type, ID, Title, InlineContent, Content, CollectionViews];   *)
(* the nil block pointer is NilBlock.  A TextSpan is [Text, Attrs]; an     *)
(* attribute is [type, val] with val the payload (color, URI, page id,     *)
(* user id, date).                                                         *)
(***************************************************************************)
BlockPage == "page"
BlockText == "text"
BlockNumberedList == "numbered_list"
BlockBulletedList == "bulleted_list"
BlockHeader == "header"
BlockSubHeader == "sub_header"
BlockSubSubHeader == "sub_sub_header"
BlockEquation == "equation"
BlockTableOfContents == "table_of_contents"
BlockCollectionView == "collection_view"
\* a type tag that the switch of DefaultRenderFunc has no case for
UnknownBlockType == "no_such_type"

NilBlock == [Type |-> "nil *Block", ID |-> <<>>, Title |-> <<>>, InlineContent |-> <<>>,
             Content |-> <<>>, CollectionViews |-> <<>>]

\* A block of the model: no format properties, no collection views.
Block(type, id, inline, content) ==
    [Type |-> type, ID |-> id, Title |-> <<>>, InlineContent |-> inline, Content |-> content,
     CollectionViews |-> <<>>]

PlainSpan(text) == [Text |-> text, Attrs |-> <<>>]

AttrBold == "b"
AttrCode == "c"
AttrItalic == "i"
AttrStrikeThrought == "s"
AttrComment == "m"
AttrLink == "a"
AttrUser == "u"
AttrHighlight == "h"
AttrDate == "d"
AttrPage == "p"

AttrGetType(attr) == attr.type
AttrGetHighlight(attr) == attr.val
AttrGetPageID(attr) == attr.val
AttrGetLink(attr) == attr.val
AttrGetUserID(attr) == attr.val
AttrGetDate(attr) == attr.val

\* notionapi.ToNoDashID: the id without its dashes
RECURSIVE ToNoDashID(_)
ToNoDashID(id) ==
    IF id = <<>> THEN <<>>
    ELSE IF Head(id) = "-" THEN ToNoDashID(Tail(id))
         ELSE <<Head(id)>> \o ToNoDashID(Tail(id))

\* Page.BlockByID: the block of the page with this id, or nil
RECURSIVE FindBlock(_, _)
FindBlock(blocks, id) ==
    IF blocks = <<>> THEN NilBlock
    ELSE LET b == Head(blocks)
         IN  IF b.ID = id /\ b # NilBlock THEN b
             ELSE LET sub == FindBlock(b.Content, id)
                  IN  IF sub # NilBlock THEN sub ELSE FindBlock(Tail(blocks), id)

BlockByID(pg, id) == FindBlock(<<pg>>, id)

\* notionapi.ResolveUser: the page holds no user records, the id stands for the name
ResolveUser(pg, userID) == userID

\* notionapi.FormatDate: a date value is kept as its formatted text
FormatDateText(d) == d

SafeChars ==
    {"0", "1", "2", "3", "4", "5", "6", "7", "8", "9",
     "a", "b", "c", "d", "e", "f", "g", "h", "i", "j", "k", "l", "m",
     "n", "o", "p", "q", "r", "s", "t", "u", "v", "w", "x", "y", "z",
     "A", "B", "C", "D", "E", "F", "G", "H", "I", "J", "K", "L", "M",
     "N", "O", "P", "Q", "R", "S", "T", "U", "V", "W", "X", "Y", "Z"}

isSafeChar(r) == r \in SafeChars

RECURSIVE CollapseSpaces(_)
CollapseSpaces(s) ==
    LET t == ReplaceAll(s, <<" "," ">>, <<" ">>) IN IF t = s THEN s ELSE CollapseSpaces(t)

RECURSIVE TrimLeft(_)
TrimLeft(s) == IF s # <<>> /\ Head(s) = " " THEN TrimLeft(Tail(s)) ELSE s

TrimRight(s) == Reverse(TrimLeft(Reverse(s)))

safeName(s) ==
    LET res == [i \in 1..Len(s) |-> IF isSafeChar(s[i]) THEN s[i] ELSE " "]
    IN  TrimRight(TrimLeft(CollapseSpaces(res)))

\* cleanAttr: strings.TrimSpace, then double spaces collapsed
cleanAttr(v) == CollapseSpaces(TrimRight(TrimLeft(v)))

\* getBlockColorClass: the blocks of the model carry no format.block_color
getBlockColorClass(block) == <<>>

FormatDate(d) == <<"<","t","i","m","e",">","@">> \o FormatDateText(d) \o <<"<","/","t","i","m","e",">">>

(***************************************************************************)
(* RenderInline: the attributes are visited from the last to the first;    *)
(* acc is [start, close, text].                                            *)
(***************************************************************************)
\* variant: the attributes read from the first to the last
AttrAtForward(b, i) == b.Attrs[i + 1]

\* attr := b.Attrs[len(b.Attrs)-i-1]
AttrAt(b, i) == b.Attrs[Len(b.Attrs) - i]

\* variant: the closing tag appended to close instead of prepended
WrapCloseAppended(acc, open, closing) ==
    [acc EXCEPT !.start = @ \o open, !.close = @ \o closing]

\* start += open; close = closing + close
Wrap(acc, open, closing) ==
    [acc EXCEPT !.start = @ \o open, !.close = closing \o @]

RenderAttr(cv, pg, attr, acc) ==
    LET t == AttrGetType(attr) IN
    CASE t = AttrHighlight ->
           Wrap(acc, <<"<","m","a","r","k"," ","c","l","a","s","s","=","\"","h","i","g","h","l","i","g","h","t","-">> \o AttrGetHighlight(attr) \o <<"\"",">">>, <<"<","/","m","a","r","k",">">>)
      [] t = AttrBold ->
           Wrap(acc, <<"<","s","t","r","o","n","g",">">>, <<"<","/","s","t","r","o","n","g",">">>)
      [] t = AttrItalic ->
           Wrap(acc, <<"<","e","m",">">>, <<"<","/","e","m",">">>)
      [] t = AttrStrikeThrought ->
           Wrap(acc, <<"<","d","e","l",">">>, <<"<","/","d","e","l",">">>)
      [] t = AttrCode ->
           Wrap(acc, <<"<","c","o","d","e",">">>, <<"<","/","c","o","d","e",">">>)
      [] t = AttrPage ->
           LET pageID == AttrGetPageID(attr)
               block == BlockByID(pg, pageID)
               pageTitle == IF block # NilBlock THEN block.Title ELSE <<>>
               relURL == IF pageTitle # <<>>
                         THEN ReplaceAll(safeName(pageTitle), <<" ">>, <<"-">>) \o <<"-">>
                              \o ToNoDashID(pageID)
                         ELSE ToNoDashID(pageID)
               uri == ApplyRewriteURL(cv, <<"h","t","t","p","s",":","/","/","w","w","w",".","n","o","t","i","o","n",".","s","o","/">> \o relURL)
           IN  [acc EXCEPT !.start = @ \o <<"<","a"," ","h","r","e","f","=","\"">> \o uri \o <<"\"",">">>
                                       \o EscapeHTML(pageTitle) \o <<"<","/","a",">">>,
                           !.text = <<>>]
      [] t = AttrLink ->
           LET uri == ApplyRewriteURL(cv, AttrGetLink(attr))
           IN  Wrap(acc, IF uri = <<>> THEN <<"<","a",">">> ELSE <<"<","a"," ","h","r","e","f","=","\"">> \o EscapeHTML(uri) \o <<"\"",">">>,
                    <<"<","/","a",">">>)
      [] t = AttrUser ->
           [acc EXCEPT !.start = @ \o <<"<","s","p","a","n"," ","c","l","a","s","s","=","\"","u","s","e","r","\"",">","@">>
                                   \o ResolveUser(pg, AttrGetUserID(attr)) \o <<"<","/","s","p","a","n",">">>,
                       !.text = <<>>]
      [] t = AttrDate ->
           [acc EXCEPT !.start = @ \o FormatDate(AttrGetDate(attr)), !.text = <<>>]
      [] OTHER -> acc

RECURSIVE RenderInlineLoop(_, _, _, _, _)
RenderInlineLoop(cv, pg, b, i, acc) ==
    IF i >= Len(b.Attrs) THEN acc
    ELSE RenderInlineLoop(cv, pg, b, i + 1, RenderAttr(cv, pg, AttrAt(b, i), acc))

\* variant: the text written without EscapeHTML
RenderInlineUnescaped(cv, pg, b) ==
    LET acc == RenderInlineLoop(cv, pg, b, 0, [start |-> <<>>, close |-> <<>>, text |-> b.Text])
    IN  Printf(cv, acc.start \o acc.text \o acc.close)

RenderInline(cv, pg, b) ==
    LET acc == RenderInlineLoop(cv, pg, b, 0, [start |-> <<>>, close |-> <<>>, text |-> b.Text])
    IN  Printf(cv, acc.start \o EscapeHTML(acc.text) \o acc.close)

RECURSIVE RenderInlines(_, _, _)
RenderInlines(cv, pg, blocks) ==
    IF blocks = <<>> THEN cv
    ELSE RenderInlines(RenderInline(cv, pg, Head(blocks)), pg, Tail(blocks))

\* variant: the spans rendered into the active buffer, with no buffer pushed
GetInlineContentInPlace(cv, pg, blocks) ==
    IF Len(blocks) = 0 THEN [cv |-> cv, s |-> <<>>]
    ELSE [cv |-> RenderInlines(cv, pg, blocks),
          s |-> RenderInlines([cv EXCEPT !.Buf = <<>>], pg, blocks).Buf]

\* GetInlineContent: [cv |-> the Converter afterwards, s |-> the string returned]
GetInlineContent(cv, pg, blocks) ==
    IF Len(blocks) = 0 THEN [cv |-> cv, s |-> <<>>]
    ELSE LET rendered == RenderInlines(PushNewBuffer(cv), pg, blocks)
         IN  [cv |-> PopBuffer(rendered), s |-> PopBufferResult(rendered)]

(***************************************************************************)
(* Specification SpecInline: RenderInline applied to one text span, in a   *)
(* Converter whose output buffer ToHTML has pushed.                        *)
(***************************************************************************)
\* ret is [st, v, err, panicked]: how far the operation under test has come, the value
\* and the error it returned, and whether it panicked instead of returning.
NotCalled == "not called"
Returned == "returned"
NoErr == "nil"
RetNone == [st |-> NotCalled, v |-> <<>>, err |-> NoErr, panicked |-> FALSE]

\* The page of the inline specifications: a root page with a title.
InlinePage == [Block(BlockPage, <<"p","-","1">>, <<>>, <<>>) EXCEPT !.Title = <<"a"," ","b">>]

Texts == SeqsUpTo(TextChars, MaxText)

WrappingAttrs ==
    { [type |-> t, val |-> <<>>] : t \in {AttrBold, AttrItalic, AttrStrikeThrought, AttrCode} }
    \cup { [type |-> AttrHighlight, val |-> <<"r","e","d">>] }
    \cup { [type |-> AttrLink, val |-> v] : v \in {<<>>, <<"u","&">>} }

ReplacingAttrs ==
    { [type |-> AttrPage, val |-> <<"p","-","1">>], [type |-> AttrUser, val |-> <<"U">>],
      [type |-> AttrDate, val |-> <<"D">>] }

InlineAttrs == WrappingAttrs \cup ReplacingAttrs \cup { [type |-> AttrComment, val |-> <<"m">>] }

InlineSpans(nAttrs) ==
    { [Text |-> t, Attrs |-> a] : t \in Texts, a \in SeqsUpTo(InlineAttrs, nAttrs) }

InitInline ==
    /\ input \in InlineSpans(MaxAttrs)
    /\ \E hook \in RewriteHooks : c = PushNewBuffer([NewConverter EXCEPT !.RewriteURL = hook])
    /\ page = InlinePage
    /\ env = NoEnv
    /\ ret = RetNone
    /\ earlier = <<>>

CallRenderInline ==
    /\ ret.st = NotCalled
    /\ c' = RenderInline(c, page, input)
    /\ ret' = [RetNone EXCEPT !.st = Returned, !.panicked = c'.panicked]
    /\ UNCHANGED <<page, env, input, earlier>>

NextInline == CallRenderInline

SpecInline == InitInline /\ [][NextInline]_vars

\* The tags a wrapping attribute is documented to produce.
OpenTag(cv, attr) ==
    CASE attr.type = AttrBold -> <<"<","s","t","r","o","n","g",">">>
      [] attr.type = AttrItalic -> <<"<","e","m",">">>
      [] attr.type = AttrStrikeThrought -> <<"<","d","e","l",">">>
      [] attr.type = AttrCode -> <<"<","c","o","d","e",">">>
      [] attr.type = AttrHighlight -> <<"<","m","a","r","k"," ","c","l","a","s","s","=","\"","h","i","g","h","l","i","g","h","t","-">> \o attr.val \o <<"\"",">">>
      [] attr.type = AttrLink ->
           IF ApplyRewriteURL(cv, attr.val) = <<>> THEN <<"<","a",">">>
           ELSE <<"<","a"," ","h","r","e","f","=","\"">> \o EscapeHTML(ApplyRewriteURL(cv, attr.val)) \o <<"\"",">">>

CloseTag(attr) ==
    CASE attr.type = AttrBold -> <<"<","/","s","t","r","o","n","g",">">>
      [] attr.type = AttrItalic -> <<"<","/","e","m",">">>
      [] attr.type = AttrStrikeThrought -> <<"<","/","d","e","l",">">>
      [] attr.type = AttrCode -> <<"<","/","c","o","d","e",">">>
      [] attr.type = AttrHighlight -> <<"<","/","m","a","r","k",">">>
      [] attr.type = AttrLink -> <<"<","/","a",">">>

AllWrapping(attrs) == \A i \in 1..Len(attrs) : attrs[i] \in WrappingAttrs

IndexPerms(n) == { f \in [1..n -> 1..n] : \A i, j \in 1..n : f[i] = f[j] => i = j }

\* opening tags in the order xs, the text, closing tags in the reverse of xs
WellNested(cv, xs, text) ==
    Concat([i \in 1..Len(xs) |-> OpenTag(cv, xs[i])]) \o EscapeHTML(text)
        \o Concat([i \in 1..Len(xs) |-> CloseTag(xs[Len(xs) + 1 - i])])

\* C3: a span with attributes [bold, link] is written as <a ...><strong>text</strong></a>,
\* and for any list of wrapping attributes the closing tags are written in the reverse
\* order of the opening tags.
C3_BoldLinkNesting ==
    (ret.st = Returned /\ AllWrapping(input.Attrs)) =>
        /\ \E f \in IndexPerms(Len(input.Attrs)) :
              c.Buf = WellNested(c, [i \in 1..Len(input.Attrs) |-> input.Attrs[f[i]]], input.Text)
        /\ (Len(input.Attrs) = 2 /\ input.Attrs[1].type = AttrBold
                /\ input.Attrs[2].type = AttrLink) =>
              c.Buf = OpenTag(c, input.Attrs[2]) \o <<"<","s","t","r","o","n","g",">">> \o EscapeHTML(input.Text)
                        \o <<"<","/","s","t","r","o","n","g",">","<","/","a",">">>

C3_Witness ==
    /\ ret.st = Returned
    /\ input.Attrs = << [type |-> AttrBold, val |-> <<>>], [type |-> AttrLink, val |-> <<"u","&">>] >>
    /\ input.Text = <<"<">>
    /\ c.Buf = <<"<","a"," ","h","r","e","f","=","\"","u","&","a","m","p",";","\"",">","<","s","t","r","o","n","g",">","&","l","t",";","<","/","s","t","r","o","n","g",">","<","/","a",">">>

\* the markup with the first-declared attribute outermost and the last-declared innermost
RECURSIVE NestFirstOutermost(_, _, _)
NestFirstOutermost(cv, attrs, inner) ==
    IF attrs = <<>> THEN inner
    ELSE OpenTag(cv, Head(attrs)) \o NestFirstOutermost(cv, Tail(attrs), inner)
           \o CloseTag(Head(attrs))

\* the markup with the last-declared attribute outermost and the first-declared innermost
RECURSIVE NestLastOutermost(_, _, _)
NestLastOutermost(cv, attrs, inner) ==
    IF attrs = <<>> THEN inner
    ELSE LET n == Len(attrs)
         IN  OpenTag(cv, attrs[n]) \o NestLastOutermost(cv, SubSeq(attrs, 1, n - 1), inner)
               \o CloseTag(attrs[n])

\* C4 as stated: with two or more wrapping attributes the last-declared attribute is the
\* innermost tag around the text and the first-declared the outermost.
C4_LastDeclaredInnermost ==
    (ret.st = Returned /\ Len(input.Attrs) >= 2 /\ AllWrapping(input.Attrs)) =>
        c.Buf = NestFirstOutermost(c, input.Attrs, EscapeHTML(input.Text))

\* C4 as amended: with two or more wrapping attributes the last-declared attribute is the
\* outermost tag and the first-declared attribute the innermost tag around the text.
C4_LastDeclaredOutermost ==
    (ret.st = Returned /\ Len(input.Attrs) >= 2 /\ AllWrapping(input.Attrs)) =>
        c.Buf = NestLastOutermost(c, input.Attrs, EscapeHTML(input.Text))

C4_Witness ==
    /\ ret.st = Returned
    /\ Len(input.Attrs) >= 2
    /\ input.Attrs[1].type = AttrItalic
    /\ input.Attrs[Len(input.Attrs)].type = AttrCode
    /\ AllWrapping(input.Attrs)
    /\ input.Text # <<>>
    /\ HasPrefix(c.Buf, <<"<","c","o","d","e",">">>)

(***************************************************************************)
(* The inline-block parser.  A decoded JSON value is [t, s, a]: t its      *)
(* kind, s the characters of a string, a the elements of an array.  An     *)
(* object (map[string]interface{}) is kept by whether it decodes into a    *)
(* Date: s is "date" when it does.                                         *)
(***************************************************************************)
JStr(s) == [t |-> "string", s |-> s, a |-> <<>>]
JArr(a) == [t |-> "array", s |-> <<>>, a |-> a]
JNum == [t |-> "number", s |-> <<>>, a |-> <<>>]
JDateObj == [t |-> "object", s |-> <<"d","a","t","e">>, a |-> <<>>]
JBadObj == [t |-> "object", s |-> <<"b","a","d">>, a |-> <<>>]

AttrFlagBold == 1
AttrFlagCode == 2
AttrFlagItalic == 4
AttrFlagStrikeThrought == 8
AttrFlagComment == 16

\* flags |= bit
BitOr(flags, bit) == IF (flags \div bit) % 2 = 1 THEN flags ELSE flags + bit

NilDate == <<"nil *Date">>

\* &InlineBlock{Text: s}
NewInlineBlock(s) ==
    [Text |-> s, AttrFlags |-> 0, Link |-> <<>>, UserID |-> <<>>, CommentID |-> <<>>,
     Date |-> NilDate]

IsPlain(b) == b.AttrFlags = 0 /\ b.Link = <<>> /\ b.UserID = <<>> /\ b.Date = NilDate

\* The outcome of a parser function: the value, the error returned, whether it panicked.
POk(v) == [v |-> v, err |-> NoErr, panicked |-> FALSE]
PErr(v, msg) == [v |-> v, err |-> msg, panicked |-> FALSE]
PPanic(v) == [v |-> v, err |-> NoErr, panicked |-> TRUE]

\* case "d": v := a[1].(map[string]interface{}) panics when a[1] is no map, and
\* an error of json.Unmarshal is a panic.
DatePayload(b, payload) ==
    IF payload.t # "object" THEN PPanic(b)
    ELSE IF payload.s # <<"d","a","t","e">> THEN PPanic(b)
    ELSE POk([b EXCEPT !.Date = payload.s])

\* the switch of a one-element attribute
FlagAttribute(b, s) ==
    CASE s = <<"b">> -> POk([b EXCEPT !.AttrFlags = BitOr(@, AttrFlagBold)])
      [] s = <<"i">> -> POk([b EXCEPT !.AttrFlags = BitOr(@, AttrFlagItalic)])
      [] s = <<"s">> -> POk([b EXCEPT !.AttrFlags = BitOr(@, AttrFlagStrikeThrought)])
      [] s = <<"c">> -> POk([b EXCEPT !.AttrFlags = BitOr(@, AttrFlagCode)])
      [] OTHER -> PErr(b, "unexpected attribute")

\* the switch of a two-element attribute
PayloadAttribute(b, s, payload) ==
    CASE s \in {<<"a">>, <<"u">>, <<"m">>} ->
           IF payload.t # "string" THEN PErr(b, "value for 'a' attribute is not string")
           ELSE IF s = <<"a">> THEN POk([b EXCEPT !.Link = payload.s])
           ELSE IF s = <<"u">> THEN POk([b EXCEPT !.UserID = payload.s])
           ELSE POk([b EXCEPT !.CommentID = payload.s])
      [] s = <<"d">> -> DatePayload(b, payload)
      [] OTHER -> PErr(b, "unexpected attribute")

parseAttribute(b, a) ==
    IF Len(a) = 0 THEN PErr(b, "attribute array is empty")
    ELSE IF a[1].t # "string" THEN PErr(b, "a[0] is not string")
    ELSE IF Len(a) = 1 THEN FlagAttribute(b, a[1].s)
    ELSE IF Len(a) # 2 THEN PErr(b, "len(a) should be 2")
    ELSE PayloadAttribute(b, a[1].s, a[2])

RECURSIVE parseAttributes(_, _)
parseAttributes(b, a) ==
    IF a = <<>> THEN POk(b)
    ELSE LET rawAttr == Head(a) IN
         IF rawAttr.t # "array" THEN PErr(b, "rawAttr is not []interface{}")
         ELSE LET r == parseAttribute(b, rawAttr.a) IN
              IF r.panicked \/ r.err # NoErr THEN r
              ELSE parseAttributes(r.v, Tail(a))

\* The value of a failed parseInlineBlock is the nil *InlineBlock.
NilInlineBlock == <<"nil *InlineBlock">>

parseInlineBlock(a) ==
    IF Len(a) = 0 THEN PErr(NilInlineBlock, "a is empty")
    ELSE IF Len(a) = 1 THEN
        IF a[1].t # "string" THEN PErr(NilInlineBlock, "a is of length 1 but not string")
        ELSE POk(NewInlineBlock(a[1].s))
    ELSE IF Len(a) # 2 THEN PErr(NilInlineBlock, "a is of length != 2")
    ELSE IF a[1].t # "string" THEN PErr(NilInlineBlock, "a[0] is not string")
    ELSE IF a[2].t # "array" THEN PErr(NilInlineBlock, "a[1] is not []interface{}")
    ELSE LET r == parseAttributes(NewInlineBlock(a[1].s), a[2].a) IN
         IF r.panicked THEN PPanic(NilInlineBlock)
         ELSE IF r.err # NoErr THEN PErr(NilInlineBlock, r.err)
         ELSE POk(r.v)

\* return nil, err  (a panic of parseInlineBlock unwinds through the loop)
Failed(res, r) == IF r.panicked THEN PPanic(<<>>) ELSE PErr(<<>>, r.err)

RECURSIVE parseInlineBlocksLoop(_, _)
parseInlineBlocksLoop(a, res) ==
    IF a = <<>> THEN POk(res)
    ELSE LET v == Head(a) IN
         IF v.t # "array" THEN Failed(res, PErr(<<>>, "v is not []interface{}"))
         ELSE LET r == parseInlineBlock(v.a) IN
              IF r.panicked \/ r.err # NoErr THEN Failed(res, r)
              ELSE parseInlineBlocksLoop(Tail(a), Append(res, r.v))

parseInlineBlocks(raw) ==
    IF raw.t # "array" THEN PErr(<<>>, "raw is not of []interface{}")
    ELSE IF Len(raw.a) = 0 THEN PErr(<<>>, "raw is empty")
    ELSE parseInlineBlocksLoop(raw.a, <<>>)

\* The text span of a plain inline block: its text and no attribute.
PlainTextSpan(b) == [Text |-> b.Text, Attrs |-> <<>>]

(***************************************************************************)
(* Specification SpecParse: parseInlineBlocks applied to a decoded JSON    *)
(* value and, when every block it returns is plain, RenderInlines applied  *)
(* to its result.  In the inputs one element (and in it one attribute) is  *)
(* arbitrary; the elements and attributes around it have a valid shape.    *)
(***************************************************************************)
\* Sequences of length 1..n with one member of All among members of Good.
FocusSeqs(All, Good, n) ==
    UNION { { [i \in 1..len |-> IF i = k THEN x ELSE g[i]] :
                k \in 1..len, x \in All, g \in [1..len -> Good] } : len \in 1..n }

AttrCodes == {<<"b">>, <<"i">>, <<"s">>, <<"c">>, <<"a">>, <<"u">>, <<"m">>, <<"d">>, <<"x">>}
Payloads == {JStr(<<"v">>), JNum, JDateObj, JBadObj}

AllTuples ==
    {JNum, JArr(<<>>), JArr(<<JNum>>), JArr(<<JStr(<<"a">>), JStr(<<"v">>), JStr(<<"v">>)>>)}
    \cup { JArr(<<JStr(code)>>) : code \in AttrCodes }
    \cup { JArr(<<JStr(code), p>>) : code \in AttrCodes, p \in Payloads }

\* The attributes around the arbitrary one have a known code and the right length.
ContextTuples ==
    {JArr(<<JStr(<<"b">>)>>), JArr(<<JStr(<<"a">>), JStr(<<"v">>)>>), JArr(<<JStr(<<"d">>), JStr(<<"v">>)>>)}

AttrLists(nAttrs) == {<<>>} \cup FocusSeqs(AllTuples, ContextTuples, nAttrs)

AllElements(nAttrs) ==
    {JNum, JArr(<<>>), JArr(<<JNum>>), JArr(<<JStr(<<"t">>)>>), JArr(<<JNum, JArr(<<>>)>>),
     JArr(<<JStr(<<"t">>), JNum>>), JArr(<<JStr(<<"t">>), JArr(<<>>), JNum>>)}
    \cup { JArr(<<JStr(<<"t">>), JArr(l)>>) : l \in AttrLists(nAttrs) }

GoodElements == {JArr(<<JStr(<<"t">>)>>), JArr(<<JStr(<<"t">>), JArr(<<JArr(<<JStr(<<"i">>)>>)>>)>>)}

MixedInputs(nAttrs, nSpans) ==
    {JStr(<<"t">>), JNum, JDateObj, JArr(<<>>)}
    \cup { JArr(a) : a \in FocusSeqs(AllElements(nAttrs), GoodElements, nSpans) }

\* Inputs made of attribute-free elements [text] only.
PlainElements(texts) == { JArr(<<JStr(t)>>) : t \in texts }

PlainInputs(nSpans) ==
    {JArr(<<>>)}
    \cup { JArr(a) : a \in FocusSeqs(PlainElements(Texts), PlainElements({<<"a">>, <<"<">>}), nSpans) }

IsPlainInput(raw) ==
    /\ raw.t = "array"
    /\ \A i \in 1..Len(raw.a) :
          raw.a[i].t = "array" /\ Len(raw.a[i].a) = 1 /\ raw.a[i].a[1].t = "string"

ParsedSt == "parsed"

InitParse ==
    /\ input \in MixedInputs(MaxAttrs, MaxSpans) \cup PlainInputs(MaxSpans)
    /\ c = PushNewBuffer(NewConverter)
    /\ page = InlinePage
    /\ env = NoEnv
    /\ ret = RetNone
    /\ earlier = <<>>

CallParseInlineBlocks ==
    /\ ret.st = NotCalled
    /\ LET r == parseInlineBlocks(input)
       IN  ret' = [st |-> ParsedSt, v |-> r.v, err |-> r.err, panicked |-> r.panicked]
    /\ UNCHANGED <<c, page, env, input, earlier>>

RenderParsed ==
    /\ ret.st = ParsedSt
    /\ ~ret.panicked /\ ret.err = NoErr
    /\ \A i \in 1..Len(ret.v) : IsPlain(ret.v[i])
    /\ c' = RenderInlines(c, page, [i \in 1..Len(ret.v) |-> PlainTextSpan(ret.v[i])])
    /\ ret' = [ret EXCEPT !.st = Returned]
    /\ UNCHANGED <<page, env, input, earlier>>

NextParse == CallParseInlineBlocks \/ RenderParsed

SpecParse == InitParse /\ [][NextParse]_vars

InputTexts == [i \in 1..Len(input.a) |-> input.a[i].a[1].s]

\* C5: for an input of attribute-free elements [text], parsing followed by RenderInlines
\* writes exactly the concatenation of EscapeHTML(text) of the spans, in input order.
C5_PlainRoundTrip ==
    (IsPlainInput(input) /\ Len(input.a) > 0) =>
        /\ ret.st = ParsedSt => (~ret.panicked /\ ret.err = NoErr /\ Len(ret.v) = Len(input.a))
        /\ ret.st = Returned =>
              c.Buf = Concat([i \in 1..Len(input.a) |-> EscapeHTML(InputTexts[i])])

C5_Witness ==
    /\ ret.st = Returned
    /\ input = JArr(<<JArr(<<JStr(<<"<">>)>>), JArr(<<JStr(<<"\"">>)>>)>>)
    /\ c.Buf = <<"&","l","t",";","&","q","u","o","t",";">>

FlagCodes == {<<"b">>, <<"i">>, <<"s">>, <<"c">>}
PayloadCodes == {<<"a">>, <<"u">>, <<"m">>, <<"d">>}

TupleCode(tp) == IF tp.a[1].t = "string" THEN tp.a[1].s ELSE <<"not a string">>

TupleMalformed(tp) ==
    /\ tp.t = "array"
    /\ \/ Len(tp.a) = 0
       \/ Len(tp.a) > 2
       \/ Len(tp.a) = 1 /\ TupleCode(tp) \notin FlagCodes
       \/ Len(tp.a) = 2 /\ TupleCode(tp) \notin PayloadCodes

ElementMalformed(e) ==
    \/ e.t # "array"
    \/ Len(e.a) \notin {1, 2}
    \/ e.a[1].t # "string"
    \/ Len(e.a) = 2 /\ e.a[2].t = "array"
         /\ \E j \in 1..Len(e.a[2].a) : TupleMalformed(e.a[2].a[j])

Malformed(raw) ==
    \/ raw.t # "array"
    \/ \E i \in 1..Len(raw.a) : ElementMalformed(raw.a[i])

\* C7: parseInlineBlocks returns an error and no spans whenever the input is structurally
\* malformed (outer value or element not an array, element length other than 1 or 2,
\* first item not a string, attribute tuple empty or longer than 2, unknown code).
C7_MalformedIsError ==
    (ret.st # NotCalled /\ Malformed(input)) =>
        (~ret.panicked /\ ret.err # NoErr /\ ret.v = <<>>)

PayloadMismatch(tp) ==
    /\ tp.t = "array" /\ Len(tp.a) = 2 /\ tp.a[1].t = "string"
    /\ \/ tp.a[1].s \in {<<"a">>, <<"u">>, <<"m">>} /\ tp.a[2].t # "string"
       \/ tp.a[1].s = <<"d">> /\ tp.a[2] # JDateObj

HasPayloadMismatch(raw) ==
    /\ raw.t = "array"
    /\ \E i \in 1..Len(raw.a) :
          /\ raw.a[i].t = "array" /\ Len(raw.a[i].a) = 2 /\ raw.a[i].a[2].t = "array"
          /\ \E j \in 1..Len(raw.a[i].a[2].a) : PayloadMismatch(raw.a[i].a[2].a[j])

\* C8: for every payload attribute code (a, u, m, d) a payload of the wrong type is
\* returned as a decode error: the parser neither panics nor accepts the span.
C8_PayloadMismatchIsError ==
    (ret.st # NotCalled /\ HasPayloadMismatch(input)) =>
        (~ret.panicked /\ ret.err # NoErr)

(***************************************************************************)
(* Table of contents.                                                      *)
(***************************************************************************)
isHeaderBlock(block) == block.Type \in {BlockHeader, BlockSubHeader, BlockSubSubHeader}

\* getHeaderBlocks: [v |-> the header blocks, panicked |-> a nil block was read]
RECURSIVE getHeaderBlocks(_)
getHeaderBlocks(blocks) ==
    IF blocks = <<>> THEN [v |-> <<>>, panicked |-> FALSE]
    ELSE LET b == Head(blocks) IN
         IF b = NilBlock THEN [v |-> <<>>, panicked |-> TRUE]
         ELSE LET here == IF isHeaderBlock(b) THEN [v |-> <<b>>, panicked |-> FALSE]
                          ELSE IF Len(b.Content) = 0 THEN [v |-> <<>>, panicked |-> FALSE]
                          ELSE getHeaderBlocks(b.Content)
                  rest == getHeaderBlocks(Tail(blocks))
              IN  IF here.panicked THEN here
                  ELSE [v |-> here.v \o rest.v, panicked |-> rest.panicked]

\* variant: sub_header and sub_sub_header taken as the same depth
cmpBlockTypesFlatSubSub(prev, curr) ==
    IF prev = curr THEN 0
    ELSE IF prev = BlockHeader THEN 1
    ELSE IF prev = BlockSubHeader THEN (IF curr = BlockHeader THEN -1 ELSE 0)
    ELSE IF prev = BlockSubSubHeader THEN -1
    ELSE 0

\* variant: a move of two depths counted twice
cmpBlockTypesByDistance(prev, curr) ==
    IF prev = curr THEN 0
    ELSE IF prev = BlockHeader THEN (IF curr = BlockSubSubHeader THEN 2 ELSE 1)
    ELSE IF prev = BlockSubHeader THEN (IF curr = BlockHeader THEN -1 ELSE 1)
    ELSE IF prev = BlockSubSubHeader THEN (IF curr = BlockHeader THEN -2 ELSE -1)
    ELSE 0

cmpBlockTypes(prev, curr) ==
    IF prev = curr THEN 0
    ELSE IF prev = BlockHeader THEN 1
    ELSE IF prev = BlockSubHeader THEN (IF curr = BlockHeader THEN -1 ELSE 1)
    ELSE IF prev = BlockSubSubHeader THEN -1
    ELSE 0

\* i counts from 0 as in the code
adjustIndent(blocks, i) ==
    IF i = 0 THEN 0 ELSE cmpBlockTypes(blocks[i].Type, blocks[i + 1].Type)

\* the loop of RenderTableOfContents from entry i (from 0) with the running indent
RECURSIVE RenderTocEntries(_, _, _, _, _)
RenderTocEntries(cv, pg, blocks, i, indent) ==
    IF i >= Len(blocks) THEN cv
    ELSE LET b == blocks[i + 1]
             ind == indent + adjustIndent(blocks, i)
             g == GetInlineContent(cv, pg, b.InlineContent)
             c1 == Printf(g.cv, <<"<","d","i","v"," ","c","l","a","s","s","=","\"","t","a","b","l","e","_","o","f","_","c","o","n","t","e","n","t","s","-","i","t","e","m"," ","t","a","b","l","e","_","o","f","_","c","o","n","t","e","n","t","s","-","i","n","d","e","n","t","-">>
                                  \o Itoa(ind) \o <<"\"",">">>)
             c2 == Printf(c1, <<"<","a"," ","c","l","a","s","s","=","\"","t","a","b","l","e","_","o","f","_","c","o","n","t","e","n","t","s","-","l","i","n","k","\""," ","h","r","e","f","=","\"","#">> \o b.ID \o <<"\"",">">>
                                  \o g.s \o <<"<","/","a",">">>)
             c3 == Printf(c2, <<"<","/","d","i","v",">">>)
         IN  RenderTocEntries(c3, pg, blocks, i + 1, ind)

RenderTableOfContents(cv, pg, block) ==
    LET cls == cleanAttr(getBlockColorClass(block) \o <<" ","t","a","b","l","e","_","o","f","_","c","o","n","t","e","n","t","s">>)
        c1 == Printf(cv, <<"<","n","a","v"," ","i","d","=","\"">> \o block.ID \o <<"\""," ","c","l","a","s","s","=","\"">> \o cls \o <<"\"",">">>)
        hs == getHeaderBlocks(pg.Content)
    IN  IF hs.panicked THEN Panic(c1)
        ELSE Printf(RenderTocEntries(c1, pg, hs.v, 0, 0), <<"<","/","n","a","v",">">>)

(***************************************************************************)
(* Specification SpecToc: RenderTableOfContents applied to a table of      *)
(* contents block of a page whose blocks are headings.                     *)
(***************************************************************************)
MaxHeadings == 5

HeaderTypes == {BlockHeader, BlockSubHeader, BlockSubSubHeader}

\* Heading i of the page has the id i and the text h.
HeadingBlocks(types) ==
    [i \in 1..Len(types) |-> Block(types[i], Itoa(i), <<PlainSpan(<<"h">>)>>, <<>>)]

TocBlock == Block(BlockTableOfContents, <<"t","o","c">>, <<>>, <<>>)

InitToc ==
    /\ \E types \in SeqsUpTo(HeaderTypes, MaxHeadings) :
          page = Block(BlockPage, <<"p","-","1">>, <<>>, <<TocBlock>> \o HeadingBlocks(types))
    /\ input = TocBlock
    /\ c = PushNewBuffer(NewConverter)
    /\ env = NoEnv
    /\ ret = RetNone
    /\ earlier = <<>>

CallRenderTableOfContents ==
    /\ ret.st = NotCalled
    /\ c' = RenderTableOfContents(c, page, input)
    /\ ret' = [RetNone EXCEPT !.st = Returned, !.panicked = c'.panicked]
    /\ UNCHANGED <<page, env, input, earlier>>

NextToc == CallRenderTableOfContents

SpecToc == InitToc /\ [][NextToc]_vars

\* The headings of the page of SpecToc and their types.
PageHeadings == SubSeq(page.Content, 2, Len(page.Content))
PageHeadingTypes == [i \in 1..Len(PageHeadings) |-> PageHeadings[i].Type]

\* The table of contents whose entry i has the indent level indents[i].
TocWithIndents(toc, hs, indents) ==
    <<"<","n","a","v"," ","i","d","=","\"">> \o toc.ID \o <<"\""," ","c","l","a","s","s","=","\"","t","a","b","l","e","_","o","f","_","c","o","n","t","e","n","t","s","\"",">">>
    \o Concat([i \in 1..Len(hs) |->
          <<"<","d","i","v"," ","c","l","a","s","s","=","\"","t","a","b","l","e","_","o","f","_","c","o","n","t","e","n","t","s","-","i","t","e","m"," ","t","a","b","l","e","_","o","f","_","c","o","n","t","e","n","t","s","-","i","n","d","e","n","t","-">> \o Itoa(indents[i])
          \o <<"\"",">","<","a"," ","c","l","a","s","s","=","\"","t","a","b","l","e","_","o","f","_","c","o","n","t","e","n","t","s","-","l","i","n","k","\""," ","h","r","e","f","=","\"","#">> \o hs[i].ID \o <<"\"",">">>
          \o EscapeHTML(hs[i].InlineContent[1].Text) \o <<"<","/","a",">","<","/","d","i","v",">">>])
    \o <<"<","/","n","a","v",">">>

H1H2H3H2H1 == <<BlockHeader, BlockSubHeader, BlockSubSubHeader, BlockSubHeader, BlockHeader>>

\* C2 as stated: for the headings [H1,H2,H3,H2,H1] RenderTableOfContents writes the
\* indent levels [0,1,1,0,-1].
C2_IndentLevelsAsStated ==
    (ret.st = Returned /\ PageHeadingTypes = H1H2H3H2H1) =>
        c.Buf = TocWithIndents(input, PageHeadings, <<0, 1, 1, 0, -1>>)

\* C2 as amended: for the headings [H1,H2,H3,H2,H1] RenderTableOfContents writes the
\* indent levels [0,1,2,1,0].
C2_IndentLevels ==
    (ret.st = Returned /\ PageHeadingTypes = H1H2H3H2H1) =>
        c.Buf = TocWithIndents(input, PageHeadings, <<0, 1, 2, 1, 0>>)

C2_Witness ==
    /\ ret.st = Returned
    /\ ~c.panicked
    /\ PageHeadingTypes = H1H2H3H2H1
    /\ Len(c.Buf) > Len(TocWithIndents(input, <<>>, <<>>))

(***************************************************************************)
(* Collection views.  A view info is [CollectionView, Collection,          *)
(* CollectionRows]; a view has Format (NilFormat or [TableProperties]);    *)
(* a collection has its name and CollectionSchema, a function from column  *)
(* names to [Name, Type]; a row has ID and Properties, a function from     *)
(* column names to raw inline content.                                     *)
(***************************************************************************)
\* pointers that may be nil carry a nil field
NilFormat == [nil |-> TRUE, TableProperties |-> <<>>]
NilColumnSchema == [nil |-> TRUE, Name |-> <<>>, Type |-> <<>>]
JNil == [t |-> "nil", s |-> <<>>, a |-> <<>>]

MapGet(f, k, nil) == IF k \in DOMAIN f THEN f[k] ELSE nil

\* notionapi.MaybePanic: panics when the package is set to panic on failures
MaybePanic(cv) == IF cv.panicked \/ ~cv.PanicOnFailures THEN cv ELSE Panic(cv)

\* variant: a panic in every mode
maybePanicAlways(cv) == Panic(cv)

maybePanic(cv) == MaybePanic(cv)

maybePanicIfErr(cv, err) == IF err # NoErr THEN MaybePanic(cv) ELSE cv

\* the blocks of the inline-block parser taken as text spans
SpansOf(r) ==
    [v |-> [i \in 1..Len(r.v) |-> PlainTextSpan(r.v[i])], err |-> r.err,
     panicked |-> r.panicked]

\* notionapi.ParseTextSpans
ParseTextSpans(raw) == SpansOf(parseInlineBlocks(raw))

\* Block.GetTitle: the spans of the row's title property
GetTitle(row) ==
    IF <<"t","i","t","l","e">> \in DOMAIN row.Properties THEN ParseTextSpans(row.Properties[<<"t","i","t","l","e">>]).v
    ELSE <<>>

\* parentTitles: the titles of the page blocks among block.Parent, block.Parent.Parent, ...
RECURSIVE PrefixParents(_, _)
PrefixParents(parentTitles, name) ==
    IF parentTitles = <<>> THEN name
    ELSE PrefixParents(Tail(parentTitles), safeName(Head(parentTitles)) \o <<"/">> \o name)

\* title := titleSpans[0].Text unless there is no span; "Untitled" when it is empty
TitleOrUntitled(titleSpans) ==
    IF Len(titleSpans) = 0 \/ titleSpans[1].Text = <<>> THEN <<"U","n","t","i","t","l","e","d">>
    ELSE titleSpans[1].Text

getTitleColDownloadedURL(row, parentTitles, col) ==
    PrefixParents(parentTitles,
                  safeName(IF col.name = <<>> THEN <<"U","n","t","i","t","l","e","d"," ","D","a","t","a","b","a","s","e">> ELSE col.name)
                  \o <<"/">> \o safeName(TitleOrUntitled(GetTitle(row))) \o <<".","h","t","m","l">>)

\* variant: the entries written in split order
MultiSelectInOrder(vals, i, s) ==
    Concat([k \in 1..Len(vals) |->
              IF EscapeHTML(vals[k]) = <<>> THEN <<>>
              ELSE <<"<","s","p","a","n"," ","c","l","a","s","s","=","\"","s","e","l","e","c","t","e","d","-","v","a","l","u","e","\"",">">> \o EscapeHTML(vals[k]) \o <<"<","/","s","p","a","n",">">>])

\* the loop over vals from i (from 0): idx := len(vals) - 1 - i
RECURSIVE MultiSelect(_, _, _)
MultiSelect(vals, i, s) ==
    IF i >= Len(vals) THEN s
    ELSE LET v == EscapeHTML(vals[Len(vals) - i])
         IN  IF v = <<>> THEN MultiSelect(vals, i + 1, s)
             ELSE MultiSelect(vals, i + 1,
                              s \o <<"<","s","p","a","n"," ","c","l","a","s","s","=","\"","s","e","l","e","c","t","e","d","-","v","a","l","u","e","\"",">">> \o v \o <<"<","/","s","p","a","n",">">>)

\* the cell once its inline content g = [cv, s] is rendered and its column looked up
RenderCellContent(g, viewInfo, parentTitles, row, colName, colInfo) ==
    IF g.cv.panicked THEN g.cv
    ELSE IF colInfo.nil THEN Panic(g.cv)
    ELSE Printf(g.cv,
                <<"<","t","d"," ","c","l","a","s","s","=","\"","c","e","l","l","-">> \o EscapeHTML(colName) \o <<"\"",">">>
                \o (IF colInfo.Type = <<"t","i","t","l","e">>
                    THEN <<"<","a"," ","h","r","e","f","=","\"">>
                         \o getTitleColDownloadedURL(row, parentTitles, viewInfo.Collection)
                         \o <<"\"",">">> \o (IF g.s = <<>> THEN <<"U","n","t","i","t","l","e","d">> ELSE g.s) \o <<"<","/","a",">">>
                    ELSE IF colInfo.Type = <<"m","u","l","t","i","_","s","e","l","e","c","t">>
                    THEN MultiSelect(Split(g.s, ","), 0, <<>>)
                    ELSE g.s)
                \o <<"<","/","t","d",">">>)

\* the cell once its property is parsed
RenderParsedCell(cv, pg, viewInfo, parentTitles, row, colName, parsed) ==
    RenderCellContent(
        GetInlineContent(IF parsed.panicked THEN Panic(cv) ELSE maybePanicIfErr(cv, parsed.err),
                         pg, parsed.v),
        viewInfo, parentTitles, row, colName,
        MapGet(viewInfo.Collection.CollectionSchema, colName, NilColumnSchema))

\* one cell of a row
RenderCell(cv, pg, viewInfo, parentTitles, row, col) ==
    RenderParsedCell(cv, pg, viewInfo, parentTitles, row, col.Property,
                     ParseTextSpans(MapGet(row.Properties, col.Property, JNil)))

\* variant: the cells of a row written from the last column to the first
RenderCellsLastFirst(cv, pg, viewInfo, parentTitles, row, columns) ==
    IF columns = <<>> THEN cv
    ELSE RenderCell(IF Len(columns) = 1 THEN cv
                    ELSE RenderCell(cv, pg, viewInfo, parentTitles, row, columns[2]),
                    pg, viewInfo, parentTitles, row, columns[1])

RECURSIVE RenderCells(_, _, _, _, _, _)
RenderCells(cv, pg, viewInfo, parentTitles, row, columns) ==
    IF columns = <<>> THEN cv
    ELSE RenderCells(RenderCell(cv, pg, viewInfo, parentTitles, row, Head(columns)),
                     pg, viewInfo, parentTitles, row, Tail(columns))

RECURSIVE RenderRows(_, _, _, _, _, _)
RenderRows(cv, pg, viewInfo, parentTitles, rows, columns) ==
    IF rows = <<>> THEN cv
    ELSE LET row == Head(rows)
             c1 == Printf(cv, <<"<","t","r"," ","i","d","=","\"">> \o row.ID \o <<"\"",">">>)
             c2 == RenderCells(c1, pg, viewInfo, parentTitles, row, columns)
             c3 == Printf(c2, <<"<","/","t","r",">">> \o <<"\n">>)
         IN  RenderRows(c3, pg, viewInfo, parentTitles, Tail(rows), columns)

RECURSIVE RenderHeaderCells(_, _, _)
RenderHeaderCells(cv, viewInfo, columns) ==
    IF columns = <<>> THEN cv
    ELSE LET colInfo == MapGet(viewInfo.Collection.CollectionSchema, Head(columns).Property,
                               NilColumnSchema)
             name == IF ~colInfo.nil THEN EscapeHTML(colInfo.Name) ELSE <<>>
         IN  RenderHeaderCells(Printf(cv, <<"<","t","h",">">> \o name \o <<"<","/","t","h",">">>), viewInfo,
                               Tail(columns))

RenderCollectionView(cv, pg, parentTitles, block) ==
    IF Len(block.CollectionViews) = 0 THEN cv
    ELSE LET viewInfo == block.CollectionViews[1] IN
         IF viewInfo.CollectionView.Format = NilFormat THEN cv
         ELSE LET columns == viewInfo.CollectionView.Format.TableProperties
                  c1 == Printf(cv, <<"<","d","i","v"," ","i","d","=","\"">> \o block.ID
                                    \o <<"\""," ","c","l","a","s","s","=","\"","c","o","l","l","e","c","t","i","o","n","-","c","o","n","t","e","n","t","\"",">">>)
                  c2 == Printf(c1, <<"<","h","4"," ","c","l","a","s","s","=","\"","c","o","l","l","e","c","t","i","o","n","-","t","i","t","l","e","\"",">">>
                                    \o viewInfo.Collection.name \o <<"<","/","h","4",">">>)
                  c3 == Printf(c2, <<"<","t","a","b","l","e"," ","c","l","a","s","s","=","\"","c","o","l","l","e","c","t","i","o","n","-","c","o","n","t","e","n","t","\"",">">> \o <<"<","t","h","e","a","d",">","<","t","r",">">>)
                  c4 == RenderHeaderCells(c3, viewInfo, columns)
                  c5 == Printf(c4, <<"<","/","t","r",">","<","/","t","h","e","a","d",">">> \o <<"<","t","b","o","d","y",">">>)
                  c6 == RenderRows(c5, pg, viewInfo, parentTitles, viewInfo.CollectionRows,
                                   columns)
              IN  Printf(c6, <<"<","/","t","b","o","d","y",">","<","/","t","a","b","l","e",">","<","/","d","i","v",">">>)

(***************************************************************************)
(* SpecColl: RenderCollectionView on a table whose columns, rows and one   *)
(* cell (the "focus" cell, at any position and of any column type) vary.   *)
(***************************************************************************)
MaxCols == 2
MaxRows == 2
MaxEntries == 3

ColumnTypes == {<<"t","i","t","l","e">>, <<"t","e","x","t">>, <<"m","u","l","t","i","_","s","e","l","e","c","t">>}
Entries == {<<>>, <<"A">>, <<"B">>, <<"C">>}

RECURSIVE JoinComma(_)
JoinComma(es) ==
    IF es = <<>> THEN <<>>
    ELSE IF Len(es) = 1 THEN es[1]
    ELSE es[1] \o <<",">> \o JoinComma(Tail(es))

EntryLists == SeqsUpTo(Entries, MaxEntries) \ {<<>>}
OtherCellText == <<"B",",","A">>

ColumnKey(i) == IF i = 1 THEN <<"t","i","t","l","e">> ELSE <<"k">> \o Itoa(i)
RowID(r) == <<"r">> \o Itoa(r)
RawText(text) == JArr(<<JArr(<<JStr(text)>>)>>)

TableView(nCols, nRows, fr, fc, ftype, ftext) ==
    [ CollectionView |->
          [Format |-> [nil |-> FALSE,
                       TableProperties |->
                           [i \in 1..nCols |-> [Property |-> ColumnKey(i)]]]],
      Collection |->
          [name |-> <<"T">>,
           CollectionSchema |->
               [k \in {ColumnKey(i) : i \in 1..nCols} |->
                    [nil |-> FALSE, Name |-> k,
                     Type |-> IF k = ColumnKey(fc) THEN ftype ELSE <<"t","e","x","t">>]]],
      CollectionRows |->
          [r \in 1..nRows |->
               [ID |-> RowID(r),
                Properties |->
                    [k \in {ColumnKey(i) : i \in 1..nCols} |->
                         RawText(IF r = fr /\ k = ColumnKey(fc) THEN ftext
                                 ELSE OtherCellText)]]] ]

InitColl ==
    /\ c = PushNewBuffer(NewConverter)
    /\ \E nCols \in 1..MaxCols, nRows \in 1..MaxRows :
         \E fr \in 1..nRows, fc \in 1..nCols, ftype \in ColumnTypes, es \in EntryLists :
            /\ input = [fr |-> fr, fc |-> fc, ftype |-> ftype, entries |-> es]
            /\ page = [Block(BlockPage, <<"p","-","1">>, <<>>, <<>>) EXCEPT
                         !.Content = << [Block(BlockCollectionView, <<"c","v">>, <<>>, <<>>) EXCEPT
                                           !.CollectionViews =
                                              <<TableView(nCols, nRows, fr, fc, ftype,
                                                          JoinComma(es))>>] >>]
    /\ env = NoEnv
    /\ ret = RetNone
    /\ earlier = <<>>

CallRenderCollectionView ==
    /\ ret.st = NotCalled
    /\ c' = RenderCollectionView(c, page, <<>>, page.Content[1])
    /\ ret' = [RetNone EXCEPT !.st = Returned, !.panicked = c'.panicked]
    /\ UNCHANGED <<page, env, input, earlier>>

NextColl == CallRenderCollectionView

SpecColl == InitColl /\ [][NextColl]_vars

\* the text of the focus cell's <td> as the claim describes it: one labelled span per
\* non-empty entry, last entry first
RECURSIVE ExpectedSpans(_)
ExpectedSpans(es) ==
    IF es = <<>> THEN <<>>
    ELSE (IF es[Len(es)] = <<>> THEN <<>>
          ELSE <<"<","s","p","a","n"," ","c","l","a","s","s","=","\"","s","e","l","e","c","t","e","d","-","v","a","l","u","e","\"",">">> \o EscapeHTML(EscapeHTML(es[Len(es)]))
               \o <<"<","/","s","p","a","n",">">>)
         \o ExpectedSpans(SubSeq(es, 1, Len(es) - 1))

Contains(s, sub) ==
    \E i \in 1..(Len(s) - Len(sub) + 1) : SubSeq(s, i, i + Len(sub) - 1) = sub

FocusCell(text) ==
    <<"<","t","r"," ","i","d","=","\"">> \o RowID(input.fr) \o <<"\"",">">>
    \o Concat([i \in 1..(input.fc - 1) |->
                 <<"<","t","d"," ","c","l","a","s","s","=","\"","c","e","l","l","-">> \o ColumnKey(i) \o <<"\"",">">> \o OtherCellText \o <<"<","/","t","d",">">>])
    \o <<"<","t","d"," ","c","l","a","s","s","=","\"","c","e","l","l","-">> \o ColumnKey(input.fc) \o <<"\"",">">> \o text \o <<"<","/","t","d",">">>

\* C6: for a multi_select column the cell is one selected-value span per non-empty
\* entry of the comma-separated cell value, in the reverse of split order; an empty
\* entry gives no span.
C6_MultiSelectReversed ==
    (ret.st = Returned /\ input.ftype = <<"m","u","l","t","i","_","s","e","l","e","c","t">>)
        => Contains(c.Buf, FocusCell(ExpectedSpans(input.entries)))

C6_Witness ==
    /\ ret.st = Returned
    /\ input.ftype = <<"m","u","l","t","i","_","s","e","l","e","c","t">>
    /\ input.entries = <<<<"A">>, <<"B">>, <<"C">>>>
    /\ Contains(c.Buf, <<"<","s","p","a","n"," ","c","l","a","s","s","=","\"","s","e","l","e","c","t","e","d","-","v","a","l","u","e","\"",">","C","<","/","s","p","a","n",">">>
                       \o <<"<","s","p","a","n"," ","c","l","a","s","s","=","\"","s","e","l","e","c","t","e","d","-","v","a","l","u","e","\"",">","B","<","/","s","p","a","n",">">>
                       \o <<"<","s","p","a","n"," ","c","l","a","s","s","=","\"","s","e","l","e","c","t","e","d","-","v","a","l","u","e","\"",">","A","<","/","s","p","a","n",">","<","/","t","d",">">>)

(***************************************************************************)
(* Rendering of a block tree.  ctx = [Page, Env, Parents]: the root block  *)
(* of c.Page, the operating system, and the titles of the page blocks      *)
(* among block.Parent, block.Parent.Parent, ... (RenderChildren sets       *)
(* child.Parent before it renders the child).                              *)
(***************************************************************************)
RECURSIVE RenderBlock(_, _, _)
RECURSIVE RenderChildren(_, _, _)

Context(pg, e) == [Page |-> pg, Env |-> e, Parents |-> <<>>]

\* the context of the children of block
ChildContext(ctx, block) ==
    [ctx EXCEPT !.Parents = IF block.Type = BlockPage THEN <<block.Title>> \o @ ELSE @]

PrevBlock(cv) == IF cv.CurrBlockIdx = 0 THEN NilBlock ELSE cv.CurrBlocks[cv.CurrBlockIdx]

NextBlock(cv) ==
    IF cv.CurrBlockIdx + 1 > Len(cv.CurrBlocks) - 1 THEN NilBlock
    ELSE cv.CurrBlocks[cv.CurrBlockIdx + 2]

IsPrevBlockOfType(cv, t) == PrevBlock(cv) # NilBlock /\ PrevBlock(cv).Type = t

IsNextBlockOfType(cv, t) == NextBlock(cv) # NilBlock /\ NextBlock(cv).Type = t

filePathForPage(block, parentTitles) ==
    PrefixParents(parentTitles, safeName(block.Title) \o <<".","h","t","m","l">>)

\* the blocks of the model have no format.page_icon
renderLinkToPage(cv, ctx, block) ==
    Printf(Printf(Printf(Printf(Printf(cv,
        <<"<","f","i","g","u","r","e"," ","i","d","=","\"">> \o block.ID \o <<"\""," ","c","l","a","s","s","=","\"">>
            \o cleanAttr(getBlockColorClass(block) \o <<" ","l","i","n","k","-","t","o","-","p","a","g","e">>) \o <<"\"",">">>),
        <<"<","a"," ","h","r","e","f","=","\"">> \o filePathForPage(block, ctx.Parents) \o <<"\"",">">>),
        EscapeHTML(block.Title)),
        <<"<","/","a",">">>),
        <<"<","/","f","i","g","u","r","e",">">>)

\* the blocks of the model have no format.page_cover and no format.page_icon
renderHeader(cv, ctx, block) ==
    Printf(Printf(RenderInlines(Printf(Printf(cv,
        <<"<","h","e","a","d","e","r",">">>),
        <<"<","h","1"," ","c","l","a","s","s","=","\"","p","a","g","e","-","t","i","t","l","e","\"",">">>),
        ctx.Page, block.InlineContent),
        <<"<","/","h","1",">">>),
        <<"<","/","h","e","a","d","e","r",">">>)

\* the style sheet of the package
CSS == <<"/","*","c","s","s","*","/">>

FullHTMLOpen(cv, block) ==
    IF cv.panicked \/ ~cv.FullHTML THEN cv
    ELSE Printf(cv, <<"<","h","t","m","l",">","<","h","e","a","d",">">>
                    \o <<"<","m","e","t","a"," ","h","t","t","p","-","e","q","u","i","v","=","\"","C","o","n","t","e","n","t","-","T","y","p","e","\""," ","c","o","n","t","e","n","t","=","\"","t","e","x","t","/","h","t","m","l",";"," ","c","h","a","r","s","e","t","=","u","t","f","-","8","\"","/",">">>
                    \o <<"<","t","i","t","l","e",">">> \o EscapeHTML(block.Title) \o <<"<","/","t","i","t","l","e",">">>
                    \o <<"<","s","t","y","l","e",">">> \o CSS \o <<"\t", "\n">> \o <<"<","/","s","t","y","l","e",">">>
                    \o <<"<","/","h","e","a","d",">","<","b","o","d","y",">">>)

FullHTMLClose(cv) ==
    IF cv.panicked \/ ~cv.FullHTML THEN cv ELSE Printf(cv, <<"<","/","b","o","d","y",">","<","/","h","t","m","l",">">>)

\* the blocks of the model have no page format: the font class is "sans"
renderRootPage(cv, ctx, block) ==
    FullHTMLClose(Printf(Printf(RenderChildren(Printf(renderHeader(Printf(FullHTMLOpen(cv, block),
        <<"<","a","r","t","i","c","l","e"," ","i","d","=","\"">> \o block.ID \o <<"\""," ","c","l","a","s","s","=","\"","p","a","g","e"," ","s","a","n","s","\"",">">>),
        ctx, block),
        <<"<","d","i","v"," ","c","l","a","s","s","=","\"","p","a","g","e","-","b","o","d","y","\"",">">>),
        ctx, block),
        <<"<","/","d","i","v",">">>),
        <<"<","/","a","r","t","i","c","l","e",">">>))

IsRoot(pg, block) == block.ID = pg.ID

RenderPage(cv, ctx, block) ==
    IF IsRoot(ctx.Page, block) THEN renderRootPage(cv, ctx, block)
    ELSE renderLinkToPage(cv, ctx, block)

RenderText(cv, ctx, block) ==
    Printf(RenderChildren(RenderInlines(Printf(cv,
        <<"<","p"," ","i","d","=","\"">> \o block.ID \o <<"\""," ","c","l","a","s","s","=","\"">> \o getBlockColorClass(block) \o <<"\"",">">>),
        ctx.Page, block.InlineContent),
        ctx, block),
        <<"<","/","p",">">>)
\* notionapi.TextSpansToString: the texts of the spans, joined
TextSpansToString(ts) == Concat([i \in 1..Len(ts) |-> ts[i].Text])

\* How a katex process ends: the step of equationToHTML that fails, or KatexOK.
KatexOK == "ok"
KatexFailures == {"StdinPipe", "Start", "Write", "Close", "Wait"}
KatexOutcomes == KatexFailures \cup {KatexOK}

\* what the katex process writes to its standard output for an equation
KatexHTML(equation) == <<"<","s","p","a","n"," ","c","l","a","s","s","=","\"","k","a","t","e","x","\"",">">> \o EscapeHTML(equation) \o <<"<","/","s","p","a","n",">">>

equationToHTML(katexPath, equation, outcome) ==
    IF outcome \in KatexFailures THEN [html |-> <<>>, err |-> outcome]
    ELSE [html |-> KatexHTML(equation), err |-> NoErr]

RenderEquationRaw(cv, ctx, block) ==
    Printf(RenderInlines(Printf(cv,
        <<"<","f","i","g","u","r","e"," ","i","d","=","\"">> \o block.ID \o <<"\""," ","c","l","a","s","s","=","\"","e","q","u","a","t","i","o","n","\"",">">>),
        ctx.Page, block.InlineContent),
        <<"<","/","f","i","g","u","r","e",">">>)

ImportKatexCSS(cv) ==
    IF cv.panicked \/ cv.didImportKatexCSS THEN cv
    ELSE [Printf(cv, <<"<","s","t","y","l","e",">","@","i","m","p","o","r","t"," ","u","r","l","(">> \o <<"'">>
                     \o <<"h","t","t","p","s",":","/","/","c","d","n","j","s",".","c","l","o","u","d","f","l","a","r","e",".","c","o","m","/","a","j","a","x","/","l","i","b","s","/","K","a","T","e","X","/","0",".","1","0",".","0","/","k","a","t","e","x",".","m","i","n",".","c","s","s">>
                     \o <<"'">> \o <<")","<","/","s","t","y","l","e",">">>)
          EXCEPT !.didImportKatexCSS = TRUE]

RenderEquationTypeset(cv, block, html) ==
    Printf(Printf(Printf(Printf(ImportKatexCSS(Printf(cv,
        <<"<","f","i","g","u","r","e"," ","i","d","=","\"">> \o block.ID \o <<"\""," ","c","l","a","s","s","=","\"","e","q","u","a","t","i","o","n","\"",">">>)),
        <<"<","d","i","v"," ","c","l","a","s","s","=","\"","e","q","u","a","t","i","o","n","-","c","o","n","t","a","i","n","e","r","\"",">">>),
        html),
        <<"<","/","d","i","v",">">>),
        <<"<","/","f","i","g","u","r","e",">">>)

\* variant: nothing written for an equation whose katex run failed
RenderEquationNoFallback(cv, ctx, block, r) ==
    IF r.err # NoErr THEN cv ELSE RenderEquationTypeset(cv, block, r.html)

\* RenderEquation once equationToHTML has returned r
RenderEquationResult(cv, ctx, block, r) ==
    IF r.err # NoErr THEN RenderEquationRaw(cv, ctx, block)
    ELSE RenderEquationTypeset(cv, block, r.html)

RenderEquation(cv, ctx, block) ==
    IF cv.panicked THEN cv
    ELSE IF ~cv.UseKatexToRenderEquation THEN RenderEquationRaw(cv, ctx, block)
    ELSE RenderEquationResult([cv EXCEPT !.katexCalls = @ + 1], ctx, block,
                              equationToHTML(cv.KatexPath,
                                             TextSpansToString(block.InlineContent),
                                             ctx.Env.Katex[cv.katexCalls + 1]))

\* the value of c.ListNo for the block at c.CurrBlockIdx
NextListNo(cv) == IF IsPrevBlockOfType(cv, BlockNumberedList) THEN cv.ListNo + 1 ELSE 1

NumberedListOpen(cv, block) ==
    Printf(Printf(cv,
        <<"<","o","l"," ","i","d","=","\"">> \o block.ID \o <<"\""," ","c","l","a","s","s","=","\"">>
            \o cleanAttr(getBlockColorClass(block) \o <<" ","n","u","m","b","e","r","e","d","-","l","i","s","t">>)
            \o <<"\""," ","s","t","a","r","t","=","\"">> \o Itoa(cv.ListNo) \o <<"\"",">">>),
        <<"<","l","i",">">>)

RenderNumberedList(cv, ctx, block) ==
    IF cv.panicked THEN cv
    ELSE Printf(Printf(RenderChildren(RenderInlines(
             NumberedListOpen([cv EXCEPT !.ListNo = NextListNo(cv)], block),
             ctx.Page, block.InlineContent),
             ctx, block),
             <<"<","/","l","i",">">>),
             <<"<","/","o","l",">">>)

RenderBulletedList(cv, ctx, block) ==
    Printf(Printf(RenderChildren(RenderInlines(Printf(Printf(cv,
        <<"<","u","l"," ","i","d","=","\"">> \o block.ID \o <<"\""," ","c","l","a","s","s","=","\"">>
            \o cleanAttr(getBlockColorClass(block) \o <<" ","b","u","l","l","e","t","e","d","-","l","i","s","t">>) \o <<"\"",">">>),
        <<"<","l","i",">">>),
        ctx.Page, block.InlineContent),
        ctx, block),
        <<"<","/","l","i",">">>),
        <<"<","/","u","l",">">>)

\* The block types of the model; for every other type the switch of DefaultRenderFunc
\* ends in its default case: maybePanic and no renderer.
DefaultRenderFunc(cv, ctx, block) ==
    CASE block.Type = BlockPage -> RenderPage(cv, ctx, block)
      [] block.Type = BlockText -> RenderText(cv, ctx, block)
      [] block.Type = BlockEquation -> RenderEquation(cv, ctx, block)
      [] block.Type = BlockNumberedList -> RenderNumberedList(cv, ctx, block)
      [] block.Type = BlockBulletedList -> RenderBulletedList(cv, ctx, block)
      [] block.Type = BlockCollectionView ->
             RenderCollectionView(cv, ctx.Page, ctx.Parents, block)
      [] block.Type = BlockTableOfContents -> RenderTableOfContents(cv, ctx.Page, block)
      [] OTHER -> maybePanic(cv)

\* the call recorded in the trace: the block and the sibling context it is made in
Log(cv, ev, block) ==
    IF cv.panicked THEN cv
    ELSE [cv EXCEPT !.trace = Append(@, [ev |-> ev, id |-> block.ID, idx |-> cv.CurrBlockIdx,
                                         sibs |-> [k \in 1..Len(cv.CurrBlocks) |->
                                                      cv.CurrBlocks[k].ID],
                                         prev |-> PrevBlock(cv).ID,
                                         next |-> NextBlock(cv).ID,
                                         out |-> Len(cv.Buf)])]

\* handled := c.RenderBlockOverride(block), as [cv, handled]
CallOverride(cv, block) ==
    IF cv.RenderBlockOverride = NoHook THEN [cv |-> cv, handled |-> FALSE]
    ELSE IF Handles(cv.RenderBlockOverride, block)
    THEN [cv |-> Printf(Log(cv, "RenderBlockOverride", block),
                        <<"<","h","o","o","k","e","d"," ","i","d","=","\"">> \o block.ID \o <<"\"","/",">">>),
          handled |-> TRUE]
    ELSE [cv |-> Log(cv, "RenderBlockOverride", block), handled |-> FALSE]

\* variant: the default rule run whatever the hook returned
RenderBlockHookIgnored(h, ctx, block) ==
    DefaultRenderFunc(Log(h.cv, "DefaultRenderFunc", block), ctx, block)

\* RenderBlock once the override hook has returned h = [cv, handled]
RenderBlockAfterOverride(h, ctx, block) ==
    IF h.handled THEN h.cv
    ELSE DefaultRenderFunc(Log(h.cv, "DefaultRenderFunc", block), ctx, block)

RenderBlock(cv, ctx, block) ==
    IF cv.panicked \/ block = NilBlock THEN cv
    ELSE RenderBlockAfterOverride(CallOverride(Log(cv, "RenderBlock", block), block),
                                  ctx, block)

needsIndent(block) == Len(block.Content) # 0 /\ block.Type = BlockText

\* the loop of RenderChildren from the child at index i (from 0); child.Parent = block
\* with a nil child is a nil pointer dereference
RECURSIVE RenderChildrenFrom(_, _, _, _)
RenderChildrenFrom(cv, ctx, block, i) ==
    IF cv.panicked \/ i >= Len(block.Content) THEN cv
    ELSE IF block.Content[i + 1] = NilBlock THEN Panic(cv)
    ELSE RenderChildrenFrom(RenderBlock([cv EXCEPT !.CurrBlockIdx = i],
                                        ChildContext(ctx, block), block.Content[i + 1]),
                            ctx, block, i + 1)

\* variant: c.CurrBlockIdx and c.CurrBlocks left as the loop set them
RestoreCurrSkipped(cv, currIdx, currBlocks) == cv

\* c.CurrBlockIdx = currIdx; c.CurrBlocks = currBlocks
RestoreCurr(cv, currIdx, currBlocks) ==
    IF cv.panicked THEN cv
    ELSE [cv EXCEPT !.CurrBlockIdx = currIdx, !.CurrBlocks = currBlocks]

IndentOpen(cv, block) ==
    IF needsIndent(block) THEN Printf(cv, <<"<","d","i","v"," ","c","l","a","s","s","=","\"","i","n","d","e","n","t","e","d","\"",">">>) ELSE cv

IndentClose(cv, block) == IF needsIndent(block) THEN Printf(cv, <<"<","/","d","i","v",">">>) ELSE cv

RenderChildren(cv, ctx, block) ==
    IF cv.panicked \/ Len(block.Content) = 0 THEN cv
    ELSE Log(IndentClose(
                 RestoreCurr(
                     Log(RenderChildrenFrom([IndentOpen(Log(cv, "RenderChildren", block), block)
                                               EXCEPT !.CurrBlocks = block.Content],
                                            ctx, block, 0),
                         "rendered", block),
                     cv.CurrBlockIdx, cv.CurrBlocks),
                 block),
             "return", block)

\* variant: no exec.LookPath after os.Stat
detectKatexStatOnly(cv, e) ==
    IF cv.KatexPath # <<>> /\ e.StatOK THEN [cv |-> cv, err |-> NoErr]
    ELSE [cv |-> cv, err |-> "KatexPath doesn't exist"]

\* [cv, err]: the Converter after detectKatex and the error it returns
detectKatex(cv, e) ==
    IF cv.KatexPath # <<>> /\ e.StatOK THEN [cv |-> cv, err |-> NoErr]
    ELSE IF e.LookPath = <<>>
    THEN [cv |-> cv,
          err |-> IF cv.KatexPath # <<>> THEN "KatexPath doesn't exist"
                  ELSE "couldn't locate katex binary"]
    ELSE [cv |-> [cv EXCEPT !.KatexPath = e.LookPath], err |-> NoErr]

NilBytes == <<"nil []byte">>

ForceKatex(cv) ==
    IF cv.NotionCompat THEN [cv EXCEPT !.UseKatexToRenderEquation = TRUE] ELSE cv

\* ToHTML after RenderBlock(c.Page.Root())
ToHTMLRendered(cv) == [cv |-> PopBuffer(cv), v |-> PopBufferResult(cv), err |-> NoErr]

\* ToHTML once the katex binary is looked for: d = [cv, err]
ToHTMLDetected(d, pg, e) ==
    IF d.err # NoErr THEN [cv |-> d.cv, v |-> NilBytes, err |-> d.err]
    ELSE ToHTMLRendered(RenderBlock(PushNewBuffer(d.cv), Context(pg, e), pg))

\* ToHTML with the katex flag settled
ToHTMLChecked(cv, pg, e) ==
    ToHTMLDetected(IF cv.UseKatexToRenderEquation THEN detectKatex(cv, e)
                   ELSE [cv |-> cv, err |-> NoErr],
                   pg, e)

\* [cv, v, err]: the Converter after ToHTML and what ToHTML returns
ToHTML(cv, pg, e) == ToHTMLChecked(ForceKatex(cv), pg, e)

Returns(r) ==
    /\ c' = r.cv
    /\ ret' = [st |-> Returned, v |-> r.v, err |-> r.err, panicked |-> r.cv.panicked]

CallToHTML ==
    /\ ret.st = NotCalled
    /\ Returns(ToHTML(c, page, env))
    /\ UNCHANGED <<page, env, input, earlier>>

Next == CallToHTML

\* the options of a Converter that ToHTML reads
Options(cv) ==
    [NotionCompat |-> cv.NotionCompat, UseKatexToRenderEquation |-> cv.UseKatexToRenderEquation,
     KatexPath |-> cv.KatexPath]

(***************************************************************************)
(* Spec: ToHTML on the pages whose root has up to MaxBlocks blocks of      *)
(* text and numbered-list items below it, nested in every way.             *)
(***************************************************************************)
MaxBlocks == 4

\* the forests of n blocks of the given types; the k-th block of a sibling list has the
\* id prefix + k, its children the prefix id + "-"
RECURSIVE ForestsFrom(_, _, _, _)
ForestsFrom(n, types, prefix, k) ==
    IF n = 0 THEN {<<>>}
    ELSE UNION { UNION { { <<Block(t, prefix \o Itoa(k), <<PlainSpan(<<"t">>)>>, ch)>> \o rest :
                              ch \in ForestsFrom(m, types, prefix \o Itoa(k) \o <<"-">>, 1),
                              rest \in ForestsFrom(n - 1 - m, types, prefix, k + 1) } :
                         t \in types } :
                 m \in 0..(n - 1) }

Forests(maxBlocks, types) ==
    UNION { ForestsFrom(n, types, <<"b">>, 1) : n \in 0..maxBlocks }

RootPage(content) ==
    [Block(BlockPage, <<"p","-","1">>, <<PlainSpan(<<"T">>)>>, content) EXCEPT !.Title = <<"T">>]

Init ==
    /\ \E content \in Forests(MaxBlocks, {BlockText, BlockNumberedList}) :
          page = RootPage(content)
    /\ c = NewConverter
    /\ env = NoEnv
    /\ input = Options(c)
    /\ ret = RetNone
    /\ earlier = <<>>

Spec == Init /\ [][Next]_vars

\* the sibling lists of the tree below block
RECURSIVE SiblingLists(_)
SiblingLists(block) ==
    IF Len(block.Content) = 0 THEN {}
    ELSE {block.Content}
         \cup UNION { SiblingLists(block.Content[i]) : i \in 1..Len(block.Content) }

\* the position of the item at index i in its run of consecutive numbered-list items
RunPosition(blocks, i) ==
    Cardinality({ k \in 1..i : \A j \in k..i : blocks[j].Type = BlockNumberedList })

OlTag(block, ordinal) ==
    <<"<","o","l"," ","i","d","=","\"">> \o block.ID \o <<"\""," ","c","l","a","s","s","=","\"","n","u","m","b","e","r","e","d","-","l","i","s","t","\""," ","s","t","a","r","t","=","\"">> \o Itoa(ordinal) \o <<"\"",">">>

\* C1: in every sibling list, every numbered-list item is emitted with its position in its
\* run of consecutive numbered-list items as ordinal (1 after a non-numbered sibling or at
\* the start, the preceding sibling's ordinal plus 1 otherwise), whatever the children of
\* the preceding sibling are.
C1_RunOrdinals ==
    ret.st = Returned =>
        /\ ~ret.panicked
        /\ \A blocks \in SiblingLists(page) :
              \A i \in 1..Len(blocks) :
                 blocks[i].Type = BlockNumberedList
                     => Contains(ret.v, OlTag(blocks[i], RunPosition(blocks, i)))

(***************************************************************************)
(* SpecKatex: ToHTML on pages of text and equation blocks, for every       *)
(* setting of NotionCompat, UseKatexToRenderEquation and KatexPath, every  *)
(* answer of os.Stat and exec.LookPath and every end of each katex run.    *)
(***************************************************************************)
MaxEqBlocks == 3
MaxEquations == 2

EquationText == <<"x","<","y">>

EqBlock(type, i) ==
    Block(type, <<"b">> \o Itoa(i),
          <<PlainSpan(IF type = BlockEquation THEN EquationText ELSE <<"t">>)>>, <<>>)

Equations(blocks) == { i \in 1..Len(blocks) : blocks[i].Type = BlockEquation }

EqPages(maxBlocks, maxEquations) ==
    { RootPage([i \in 1..Len(types) |-> EqBlock(types[i], i)]) :
        types \in { ts \in SeqsUpTo({BlockText, BlockEquation}, maxBlocks) :
                      Cardinality({ i \in 1..Len(ts) : ts[i] = BlockEquation })
                          <= maxEquations } }

KatexPaths == {<<>>, <<"/","k">>}
LookPaths == {<<>>, <<"/","b","i","n","/","k","a","t","e","x">>}

InitKatex ==
    /\ page \in EqPages(MaxEqBlocks, MaxEquations)
    /\ \E compat \in BOOLEAN, use \in BOOLEAN, path \in KatexPaths :
          c = [NewConverter EXCEPT !.NotionCompat = compat,
                                   !.UseKatexToRenderEquation = use, !.KatexPath = path]
    /\ \E stat \in BOOLEAN, look \in LookPaths :
          \E katex \in [1..Cardinality(Equations(page.Content)) -> KatexOutcomes] :
             env = [StatOK |-> stat, LookPath |-> look, Katex |-> katex]
    /\ input = Options(c)
    /\ ret = RetNone
    /\ earlier = <<>>

SpecKatex == InitKatex /\ [][Next]_vars

\* typesetting is requested / the katex binary can be found
Requested == input.UseKatexToRenderEquation \/ input.NotionCompat
Resolvable == (input.KatexPath # <<>> /\ env.StatOK) \/ env.LookPath # <<>>

\* the number of the katex run of the equation block at index i of the page
KatexRun(i) == Cardinality({ k \in Equations(page.Content) : k <= i })

RawFigure(block) ==
    <<"<","f","i","g","u","r","e"," ","i","d","=","\"">> \o block.ID \o <<"\""," ","c","l","a","s","s","=","\"","e","q","u","a","t","i","o","n","\"",">">>
    \o EscapeHTML(EquationText) \o <<"<","/","f","i","g","u","r","e",">">>

\* how the output goes on after the block at index i
OpeningOfNext(i) ==
    IF i = Len(page.Content) THEN <<"<","/","d","i","v",">","<","/","a","r","t","i","c","l","e",">">>
    ELSE IF page.Content[i + 1].Type = BlockEquation
    THEN <<"<","f","i","g","u","r","e"," ","i","d","=","\"">> \o page.Content[i + 1].ID \o <<"\""," ","c","l","a","s","s","=","\"","e","q","u","a","t","i","o","n","\"",">">>
    ELSE <<"<","p"," ","i","d","=","\"">> \o page.Content[i + 1].ID \o <<"\""," ","c","l","a","s","s","=","\"","\"",">">>

\* C9: with typesetting enabled and the binary found, an equation block whose katex run
\* fails at any step is written as the equation figure with its escaped raw inline
\* content, the next block (or the end of the page) follows it, and ToHTML returns the
\* output with a nil error.
C9_KatexFailureFallsBack ==
    (ret.st = Returned /\ Requested /\ Resolvable) =>
        /\ ~ret.panicked
        /\ ret.err = NoErr
        /\ \A i \in Equations(page.Content) :
              env.Katex[KatexRun(i)] \in KatexFailures
                  => Contains(ret.v, RawFigure(page.Content[i]) \o OpeningOfNext(i))

C9_Witness ==
    /\ ret.st = Returned /\ Requested /\ Resolvable
    /\ Len(page.Content) = 3
    /\ page.Content[1].Type = BlockEquation /\ env.Katex[1] = "Wait"
    /\ page.Content[2].Type = BlockEquation /\ env.Katex[2] = KatexOK
    /\ page.Content[3].Type = BlockText
    /\ Contains(ret.v, RawFigure(page.Content[1]) \o OpeningOfNext(1))
    /\ Contains(ret.v, KatexHTML(EquationText))
    /\ ret.err = NoErr

\* C10: ToHTML returns an error exactly when typesetting is requested and the binary is
\* found neither at KatexPath nor by the lookup; it then returns no output and has pushed
\* no buffer, run no katex process and written nothing.  When typesetting is not
\* requested the error is nil and KatexPath is left as it was (no lookup is made).
C10_ConfigError ==
    ret.st = Returned =>
        /\ ~ret.panicked
        /\ (ret.err # NoErr) <=> (Requested /\ ~Resolvable)
        /\ ret.err # NoErr =>
              /\ ret.v = NilBytes
              /\ c.pushes = 0 /\ c.bufs = <<>> /\ c.Buf = NilBuffer
              /\ c.katexCalls = 0
        /\ ret.err = NoErr => (c.pushes > 0 /\ ret.v # NilBytes)
        /\ ~Requested => (ret.err = NoErr /\ c.KatexPath = input.KatexPath /\ c.katexCalls = 0)

C10_Witness ==
    /\ ret.st = Returned
    /\ input.NotionCompat /\ ~input.UseKatexToRenderEquation
    /\ input.KatexPath # <<>> /\ ~env.StatOK /\ env.LookPath = <<>>
    /\ ret.err # NoErr /\ ret.v = NilBytes /\ c.pushes = 0
    /\ Len(page.Content) > 0

(***************************************************************************)
(* SpecAgain: two successive calls of ToHTML on the same Converter, for    *)
(* the pages and options of SpecKatex.  The katex runs of the second call  *)
(* end as those of the first.                                              *)
(***************************************************************************)
InitAgain ==
    /\ page \in EqPages(MaxEqBlocks, MaxEquations)
    /\ \E compat \in BOOLEAN, use \in BOOLEAN, path \in KatexPaths :
          c = [NewConverter EXCEPT !.NotionCompat = compat,
                                   !.UseKatexToRenderEquation = use, !.KatexPath = path]
    /\ \E stat \in BOOLEAN, look \in LookPaths :
          \E katex \in [1..Cardinality(Equations(page.Content)) -> KatexOutcomes] :
             env = [StatOK |-> stat, LookPath |-> look, Katex |-> katex \o katex]
    /\ input = Options(c)
    /\ ret = RetNone
    /\ earlier = <<>>

\* a second call of ToHTML on the Converter that the first call left
CallToHTMLAgain ==
    /\ ret.st = Returned /\ ~ret.panicked
    /\ earlier = <<>>
    /\ Returns(ToHTML(c, page, env))
    /\ earlier' = <<ret>>
    /\ UNCHANGED <<page, env, input>>

NextAgain == CallToHTML \/ CallToHTMLAgain

SpecAgain == InitAgain /\ [][NextAgain]_vars

\* C11: the second of two successive ToHTML calls on the same Converter, page and
\* operating system returns byte for byte what the first returned.
C11_SameOutputTwice ==
    Len(earlier) = 1 => (ret.v = earlier[1].v /\ ret.err = earlier[1].err)

(***************************************************************************)
(* SpecWalk: ToHTML on the pages whose root has up to MaxWalkBlocks blocks *)
(* of text, numbered-list items, sub-pages and blocks of an unknown type   *)
(* below it, nested in every way, with and without the hooks, in both      *)
(* modes of MaybePanic.                                                    *)
(***************************************************************************)
MaxWalkBlocks == 3

WalkTypes == {BlockText, BlockNumberedList, BlockPage, UnknownBlockType}

InitWalk ==
    /\ \E content \in Forests(MaxWalkBlocks, WalkTypes) :
          page = RootPage(content)
    /\ \E strict \in BOOLEAN, override \in OverrideHooks, rewrite \in RewriteHooks :
          c = [NewConverter EXCEPT !.PanicOnFailures = strict,
                                   !.RenderBlockOverride = override,
                                   !.RewriteURL = rewrite]
    /\ env = NoEnv
    /\ input = Options(c)
    /\ ret = RetNone
    /\ earlier = <<>>

SpecWalk == InitWalk /\ [][Next]_vars

\* the calls of the run, in order
Trace == c.trace

\* the positions of the trace where the default rule is asked for a block of unknown type
UnknownDispatches ==
    { k \in 1..Len(Trace) : /\ Trace[k].ev = "DefaultRenderFunc"
                             /\ BlockByID(page, Trace[k].id).Type = UnknownBlockType }

\* the call that follows the one at k when rendering goes on with the next block: RenderBlock
\* of the next sibling, or the end of the loop of RenderChildren when there is none
GoesOnAfter(k) ==
    /\ k < Len(Trace)
    /\ IF Trace[k].next # <<>>
       THEN Trace[k + 1].ev = "RenderBlock" /\ Trace[k + 1].id = Trace[k].next
       ELSE Trace[k + 1].ev = "rendered"

CallsOf(ev, id) == { k \in 1..Len(Trace) : Trace[k].ev = ev /\ Trace[k].id = id }

\* the calls made for the blocks below the block id
CallsBelow(id) == { k \in 1..Len(Trace) : HasPrefix(Trace[k].id, id \o <<"-">>) }

\* C13: with an override hook set, every call of RenderBlock for a non-nil block calls the
\* hook exactly once, before any default rule; when the hook returns true neither the default
\* rule of the block nor anything for its children is run, and when it returns false the
\* default rule of the block runs next.
C13_OverrideConsulted ==
    (ret.st = Returned /\ c.RenderBlockOverride # NoHook) =>
        \A k \in 1..Len(Trace) :
            Trace[k].ev = "RenderBlock" =>
                /\ k < Len(Trace)
                /\ Trace[k + 1].ev = "RenderBlockOverride" /\ Trace[k + 1].id = Trace[k].id
                /\ Cardinality(CallsOf("RenderBlockOverride", Trace[k].id))
                     = Cardinality(CallsOf("RenderBlock", Trace[k].id))
                /\ IF Handles(c.RenderBlockOverride, BlockByID(page, Trace[k].id))
                   THEN /\ CallsOf("DefaultRenderFunc", Trace[k].id) = {}
                        /\ CallsBelow(Trace[k].id) = {}
                   ELSE /\ k + 1 < Len(Trace)
                        /\ Trace[k + 2].ev = "DefaultRenderFunc"
                        /\ Trace[k + 2].id = Trace[k].id

\* a run with the hook set passed a block with children that the hook handled and a block
\* that it did not handle
C13_Witness ==
    /\ ret.st = Returned /\ c.RenderBlockOverride # NoHook /\ ~ret.panicked
    /\ \E k \in 1..Len(Trace) :
          /\ Trace[k].ev = "RenderBlockOverride"
          /\ Handles(c.RenderBlockOverride, BlockByID(page, Trace[k].id))
          /\ BlockByID(page, Trace[k].id).Content # <<>>
    /\ \E k \in 1..Len(Trace) :
          /\ Trace[k].ev = "RenderBlockOverride"
          /\ BlockByID(page, Trace[k].id).Type = BlockNumberedList

\* the positions of s right after an occurrence of sub
EndsOf(s, sub) ==
    { i \in Len(sub)..Len(s) : SubSeq(s, i - Len(sub) + 1, i) = sub }

\* the text of s after position i starts with prefix
StartsAt(s, i, prefix) ==
    i + Len(prefix) <= Len(s) /\ SubSeq(s, i + 1, i + Len(prefix)) = prefix

\* C14: with a URL-rewrite hook set, every link target written to the output is a result of
\* the hook (the hook of the model puts /r/ before the URI).
C14_EveryLinkRewritten ==
    (ret.st = Returned /\ ~ret.panicked /\ c.RewriteURL # NoHook) =>
        \A i \in EndsOf(ret.v, <<"h","r","e","f","=","\"">>) : StartsAt(ret.v, i, ApplyRewriteURL(c, <<>>))

\* the blocks of the tree at block
RECURSIVE BlocksOf(_)
BlocksOf(block) ==
    {block} \cup UNION { BlocksOf(block.Content[i]) : i \in 1..Len(block.Content) }

IDs(blocks) == [k \in 1..Len(blocks) |-> blocks[k].ID]

\* the call at k of the trace is made in the sibling context of child i of block b
InContextOf(k, b, i) ==
    /\ Trace[k].sibs = IDs(b.Content)
    /\ Trace[k].idx = i - 1
    /\ Trace[k].prev = IF i = 1 THEN NilBlock.ID ELSE b.Content[i - 1].ID
    /\ Trace[k].next = IF i = Len(b.Content) THEN NilBlock.ID ELSE b.Content[i + 1].ID

\* C18: while child i of a block is rendered, CurrBlocks is the child list of that block and
\* CurrBlockIdx is i, so that PrevBlock and NextBlock are the siblings before and after it
\* (nil at the ends); when RenderChildren returns, CurrBlocks and CurrBlockIdx are what they
\* were when it was entered.
C18_SiblingContextScoped ==
    ret.st = Returned =>
        /\ \A k \in 1..Len(Trace) :
              Trace[k].ev = "RenderBlock" =>
                  \A b \in BlocksOf(page) : \A i \in 1..Len(b.Content) :
                      b.Content[i].ID = Trace[k].id => InContextOf(k, b, i)
        /\ \A k \in 1..Len(Trace) :
              Trace[k].ev = "return" =>
                  \E j \in 1..(k - 1) :
                      /\ Trace[j].ev = "RenderChildren" /\ Trace[j].id = Trace[k].id
                      /\ Trace[j].sibs = Trace[k].sibs /\ Trace[j].idx = Trace[k].idx

\* a block was rendered after RenderChildren had returned for the sibling before it
C18_Witness ==
    /\ ret.st = Returned /\ ~ret.panicked
    /\ \E k \in 1..Len(Trace) :
          /\ Trace[k].ev = "RenderBlock" /\ Trace[k].idx = 1
          /\ \E j \in 1..(k - 1) : Trace[j].ev = "return" /\ Trace[j].id = Trace[k].prev

\* the rank of a heading type: 1 for H1, 2 for H2, 3 for H3
Rank(type) ==
    IF type = BlockHeader THEN 1 ELSE IF type = BlockSubHeader THEN 2 ELSE 3

\* 0 for equal ranks, +1 for a move to a deeper rank, -1 for a move to a shallower one
RankDelta(prev, curr) ==
    IF Rank(curr) = Rank(prev) THEN 0 ELSE IF Rank(curr) > Rank(prev) THEN 1 ELSE -1

\* the indent of entry i: the deltas of the moves up to it, added up
RECURSIVE RunningIndent(_, _)
RunningIndent(types, i) ==
    IF i <= 1 THEN 0
    ELSE RunningIndent(types, i - 1) + RankDelta(types[i - 1], types[i])

\* C19: for every sequence of headings the first entry of the table of contents has the
\* indent 0 and every later entry the indent of the entry before it plus 0 for equal ranks,
\* +1 for a move to a deeper rank (H1 to H3 too) and -1 for a move to a shallower rank.
C19_RunningIndent ==
    ret.st = Returned =>
        c.Buf = TocWithIndents(input, PageHeadings,
                               [i \in 1..Len(PageHeadings) |->
                                    RunningIndent(PageHeadingTypes, i)])

\* the table of contents was written for headings that move from H1 to H3 and from H3 to H1
C19_Witness ==
    /\ ret.st = Returned /\ ~ret.panicked
    /\ \E i \in 1..(Len(PageHeadings) - 1) :
          PageHeadingTypes[i] = BlockHeader /\ PageHeadingTypes[i + 1] = BlockSubSubHeader
    /\ \E i \in 1..(Len(PageHeadings) - 1) :
          PageHeadingTypes[i] = BlockSubSubHeader /\ PageHeadingTypes[i + 1] = BlockHeader

(***************************************************************************)
(* SpecTocTree: RenderTableOfContents on the pages whose root has up to    *)
(* MaxTocBlocks blocks of text and headings below it, nested in every way, *)
(* with the table of contents block before or after them.                  *)
(***************************************************************************)
MaxTocBlocks == 3

InitTocTree ==
    /\ \E content \in Forests(MaxTocBlocks, {BlockText, BlockHeader, BlockSubHeader}) :
          \E first \in BOOLEAN :
              page = Block(BlockPage, <<"p","-","1">>, <<>>,
                           IF first THEN <<TocBlock>> \o content ELSE content \o <<TocBlock>>)
    /\ input = TocBlock
    /\ c = PushNewBuffer(NewConverter)
    /\ env = NoEnv
    /\ ret = RetNone
    /\ earlier = <<>>

SpecTocTree == InitTocTree /\ [][NextToc]_vars

\* the heading blocks of the trees at blocks, in document order
RECURSIVE DocHeadings(_)
DocHeadings(blocks) ==
    IF blocks = <<>> THEN <<>>
    ELSE (IF isHeaderBlock(Head(blocks)) THEN <<Head(blocks)>> ELSE <<>>)
         \o DocHeadings(Head(blocks).Content)
         \o DocHeadings(Tail(blocks))

PageDocHeadings == DocHeadings(page.Content)
PageDocHeadingTypes == [i \in 1..Len(PageDocHeadings) |-> PageDocHeadings[i].Type]

\* C20: the table of contents holds one link per heading block of the subtree under the page
\* root, whatever its depth, in document order.
C20_EveryHeadingLinked ==
    ret.st = Returned =>
        c.Buf = TocWithIndents(input, PageDocHeadings,
                               [i \in 1..Len(PageDocHeadings) |->
                                    RunningIndent(PageDocHeadingTypes, i)])

(***************************************************************************)
(* SpecBuf: the calls of PushNewBuffer, Printf and PopBuffer on a new      *)
(* Converter, in every order, up to MaxDepth buffers on the stack,         *)
(* MaxPushes calls of PushNewBuffer and MaxWrites calls of Printf.  input  *)
(* is the caller's account of the calls: per PushNewBuffer not yet         *)
(* matched, the buffer that was active at the push and the text written    *)
(* since at that level (stack); the account of the push that the last      *)
(* PopBuffer matched (closed); the active buffer before the last call      *)
(* (before); the number of calls of Printf (writes).                       *)
(***************************************************************************)
MaxDepth == 2
MaxPushes == 3
MaxWrites == 3

BufTexts == {<<"a">>, <<"b">>}
NoLevel == [atPush |-> NilBuffer, written |-> <<>>, none |-> TRUE]
Level(buf) == [atPush |-> buf, written |-> <<>>, none |-> FALSE]

InitBuf ==
    /\ c = NewConverter
    /\ page = InlinePage
    /\ env = NoEnv
    /\ input = [stack |-> <<>>, closed |-> NoLevel, before |-> NilBuffer, writes |-> 0]
    /\ ret = RetNone
    /\ earlier = <<>>

\* what the caller of a Converter method gets: nothing when the call panics
Called(name, cv, v) ==
    /\ c' = cv
    /\ ret' = [st |-> name, v |-> IF cv.panicked THEN <<>> ELSE v, err |-> NoErr,
               panicked |-> cv.panicked]

CallPushNewBuffer ==
    /\ ~c.panicked /\ Len(c.bufs) < MaxDepth /\ c.pushes < MaxPushes
    /\ Called("PushNewBuffer", PushNewBuffer(c), <<>>)
    /\ input' = [input EXCEPT !.stack = Append(@, Level(c.Buf)), !.before = c.Buf]
    /\ UNCHANGED <<page, env, earlier>>

CallPrintf ==
    /\ ~c.panicked /\ input.writes < MaxWrites
    /\ \E s \in BufTexts :
          /\ Called("Printf", Printf(c, s), <<>>)
          /\ input' = [input EXCEPT !.stack = IF @ = <<>> THEN @
                                              ELSE [@ EXCEPT ![Len(@)].written = @ \o s],
                                    !.before = c.Buf, !.writes = @ + 1]
    /\ UNCHANGED <<page, env, earlier>>

CallPopBuffer ==
    /\ ~c.panicked
    /\ Called("PopBuffer", PopBuffer(c), PopBufferResult(c))
    /\ input' = [input EXCEPT !.stack = IF @ = <<>> THEN @ ELSE SubSeq(@, 1, Len(@) - 1),
                              !.closed = IF input.stack = <<>> THEN NoLevel
                                         ELSE input.stack[Len(input.stack)],
                              !.before = c.Buf]
    /\ UNCHANGED <<page, env, earlier>>

NextBuf == CallPushNewBuffer \/ CallPrintf \/ CallPopBuffer
SpecBuf == InitBuf /\ [][NextBuf]_vars

\* C15: a PopBuffer that has a matching PushNewBuffer returns the text written between the
\* two at that level, and makes active again the buffer that was active at the push, with
\* the content it had then; the buffers below are those of the pushes not yet matched.
C15_PopReturnsOwnText ==
    (ret.st = "PopBuffer" /\ ~input.closed.none) =>
        /\ ~ret.panicked
        /\ ret.v = input.closed.written
        /\ c.Buf = input.closed.atPush
        /\ c.bufs = [k \in 1..Len(input.stack) |-> input.stack[k].atPush]

\* an inner PopBuffer returned text and went back to an outer buffer that holds text
C15_Witness ==
    /\ ret.st = "PopBuffer" /\ ~ret.panicked
    /\ ret.v # <<>>
    /\ Len(c.bufs) >= 1 /\ c.Buf # <<>> /\ c.Buf # ret.v

\* C16: a PopBuffer with no buffer on the stack panics: it returns nothing and the active
\* buffer is the one it was before the call.
C16_PopOnEmptyPanics ==
    (ret.st = "PopBuffer" /\ input.closed.none) =>
        /\ ret.panicked
        /\ ret.v = <<>> /\ ret.err = NoErr
        /\ c.Buf = input.before

\* a PopBuffer was called after every PushNewBuffer had been matched
C16_Witness ==
    /\ ret.st = "PopBuffer" /\ input.closed.none
    /\ c.pushes >= 1

(***************************************************************************)
(* SpecCell: ToHTML on a page with one table whose focus cell holds a raw  *)
(* value of CellValues, well-formed or not, in both modes of MaybePanic.   *)
(***************************************************************************)
\* raw values that ParseTextSpans rejects, and one that it accepts
BadCellValues ==
    {JNum, JArr(<<>>), JArr(<<JStr(<<"x">>)>>), JArr(<<JArr(<<JNum>>)>>)}
CellValues == BadCellValues \cup {RawText(<<"x">>)}

\* the table with the raw value of the focus cell replaced
WithCell(tv, fr, fc, raw) ==
    [tv EXCEPT !.CollectionRows[fr].Properties[ColumnKey(fc)] = raw]

InitCell ==
    /\ \E strict \in BOOLEAN : c = [NewConverter EXCEPT !.PanicOnFailures = strict]
    /\ \E nCols \in 1..MaxCols, nRows \in 1..MaxRows :
         \E fr \in 1..nRows, fc \in 1..nCols, ftype \in ColumnTypes, raw \in CellValues :
            /\ input = [fr |-> fr, fc |-> fc, ftype |-> ftype, raw |-> raw]
            /\ page = RootPage(<< [Block(BlockCollectionView, <<"c","v">>, <<>>, <<>>) EXCEPT
                                     !.CollectionViews =
                                        <<WithCell(TableView(nCols, nRows, fr, fc, ftype,
                                                             OtherCellText),
                                                   fr, fc, raw)>>] >>)
    /\ env = NoEnv
    /\ ret = RetNone
    /\ earlier = <<>>

SpecCell == InitCell /\ [][Next]_vars

\* parsing the raw value of the focus cell yields an error
CellDecodeError == ParseTextSpans(input.raw).err # NoErr

\* C17: when parsing the raw value of a cell yields an error, the conversion does not
\* complete normally: its caller gets the error, or the panic, in every mode.
C17_DecodeErrorPropagated ==
    (ret.st = Returned /\ CellDecodeError) => (ret.err # NoErr \/ ret.panicked)

\* what a text-replacing attribute puts in place of the text of its span
ReplacingFragment(cv, pg, attr) ==
    RenderAttr(cv, pg, attr, [start |-> <<>>, close |-> <<>>, text |-> <<>>]).start

AllReplacing(attrs) == \A i \in 1..Len(attrs) : attrs[i] \in ReplacingAttrs

\* C21: for a span with two or more text-replacing attributes RenderInline writes the
\* fragment of the attribute it visits last, and neither the fragment of another one nor
\* the text of the span.
C21_LastReplacingWins ==
    (ret.st = Returned /\ Len(input.Attrs) >= 2 /\ AllReplacing(input.Attrs)) =>
        c.Buf = ReplacingFragment(c, page, AttrAt(input, Len(input.Attrs) - 1))

\* the table of the page of SpecColl, its columns and its rows
PageView == page.Content[1].CollectionViews[1]
PageColumns == PageView.CollectionView.Format.TableProperties
PageRows == PageView.CollectionRows

IsFocus(r, i) == r = input.fr /\ i = input.fc
CellText(r, i) == IF IsFocus(r, i) THEN JoinComma(input.entries) ELSE OtherCellText
CellEntries(r, i) == IF IsFocus(r, i) THEN input.entries ELSE <<<<"B">>, <<"A">>>>
ColumnType(i) == PageView.Collection.CollectionSchema[PageColumns[i].Property].Type

\* the cell of row r in column i as the claim describes it
ExpectedCell(r, i) ==
    <<"<","t","d"," ","c","l","a","s","s","=","\"","c","e","l","l","-">> \o PageColumns[i].Property \o <<"\"",">">>
    \o (IF ColumnType(i) = <<"t","i","t","l","e">>
        THEN <<"<","a"," ","h","r","e","f","=","\"">> \o getTitleColDownloadedURL(PageRows[r], <<>>, PageView.Collection)
             \o <<"\"",">">>
             \o (IF CellText(r, i) = <<>> THEN <<"U","n","t","i","t","l","e","d">> ELSE EscapeHTML(CellText(r, i)))
             \o <<"<","/","a",">">>
        ELSE IF ColumnType(i) = <<"m","u","l","t","i","_","s","e","l","e","c","t">> THEN ExpectedSpans(CellEntries(r, i))
        ELSE EscapeHTML(CellText(r, i)))
    \o <<"<","/","t","d",">">>

ExpectedTable ==
    <<"<","d","i","v"," ","i","d","=","\"">> \o page.Content[1].ID \o <<"\""," ","c","l","a","s","s","=","\"","c","o","l","l","e","c","t","i","o","n","-","c","o","n","t","e","n","t","\"",">">>
    \o <<"<","h","4"," ","c","l","a","s","s","=","\"","c","o","l","l","e","c","t","i","o","n","-","t","i","t","l","e","\"",">">> \o PageView.Collection.name \o <<"<","/","h","4",">">>
    \o <<"<","t","a","b","l","e"," ","c","l","a","s","s","=","\"","c","o","l","l","e","c","t","i","o","n","-","c","o","n","t","e","n","t","\"",">","<","t","h","e","a","d",">","<","t","r",">">>
    \o Concat([i \in 1..Len(PageColumns) |->
                 <<"<","t","h",">">>
                 \o EscapeHTML(PageView.Collection.CollectionSchema[PageColumns[i].Property].Name)
                 \o <<"<","/","t","h",">">>])
    \o <<"<","/","t","r",">","<","/","t","h","e","a","d",">","<","t","b","o","d","y",">">>
    \o Concat([r \in 1..Len(PageRows) |->
                 <<"<","t","r"," ","i","d","=","\"">> \o PageRows[r].ID \o <<"\"",">">>
                 \o Concat([i \in 1..Len(PageColumns) |-> ExpectedCell(r, i)])
                 \o <<"<","/","t","r",">">> \o <<"\n">>])
    \o <<"<","/","t","b","o","d","y",">","<","/","t","a","b","l","e",">","<","/","d","i","v",">">>

\* C22: RenderCollectionView writes one header cell per column of the view in the order of
\* the view, then one row per collection row in row order with one cell per column in the
\* same order; the cell of a title column is a link around the rendered value, or around
\* Untitled when the value is empty.
C22_TableLayout ==
    ret.st = Returned => (~ret.panicked /\ c.Buf = ExpectedTable)

\* a table of two columns and two rows was written whose title cell has an empty value
C22_Witness ==
    /\ ret.st = Returned /\ ~ret.panicked
    /\ Len(PageColumns) = 2 /\ Len(PageRows) = 2
    /\ input.ftype = <<"t","i","t","l","e">> /\ JoinComma(input.entries) = <<>>
    /\ Contains(c.Buf, <<"\"",">","U","n","t","i","t","l","e","d","<","/","a",">","<","/","t","d",">">>)

(***************************************************************************)
(* SpecStack: GetInlineContent and ToHTML called on a Converter whose      *)
(* buffer stack is in one of the states of Stacks, with up to MaxSpans     *)
(* spans of StackSpans and a page of text or with a table.  input.entry is *)
(* the Converter at the call.                                              *)
(***************************************************************************)
Stacks ==
    { NewConverter,
      Printf(PushNewBuffer(NewConverter), <<"o">>),
      Printf(PushNewBuffer(Printf(PushNewBuffer(NewConverter), <<"o">>)), <<"i">>) }

StackSpans ==
    { PlainSpan(<<"a","<">>),
      [Text |-> <<"b">>, Attrs |-> << [type |-> AttrBold, val |-> <<>>] >>],
      [Text |-> <<"c">>, Attrs |-> << [type |-> AttrUser, val |-> <<"U">>] >>] }

StackPages ==
    { RootPage(<< Block(BlockText, <<"b","1">>, <<PlainSpan(<<"t">>)>>, <<>>) >>),
      RootPage(<< [Block(BlockCollectionView, <<"c","v">>, <<>>, <<>>) EXCEPT
                     !.CollectionViews =
                        <<TableView(2, 1, 1, 1, <<"t","i","t","l","e">>, <<"A">>)>>] >>) }

InitStack ==
    /\ c \in Stacks
    /\ page \in StackPages
    /\ \E spans \in SeqsUpTo(StackSpans, MaxSpans) : input = [spans |-> spans, entry |-> c]
    /\ env = NoEnv
    /\ ret = RetNone
    /\ earlier = <<>>

\* s := c.GetInlineContent(spans)
GetInlineContentReturns(g) ==
    /\ c' = g.cv
    /\ ret' = [st |-> "GetInlineContent", v |-> g.s, err |-> NoErr, panicked |-> g.cv.panicked]

CallGetInlineContent ==
    /\ ret.st = NotCalled
    /\ GetInlineContentReturns(GetInlineContent(c, page, input.spans))
    /\ UNCHANGED <<page, env, input, earlier>>

NextStack == CallGetInlineContent \/ CallToHTML
SpecStack == InitStack /\ [][NextStack]_vars

\* the text of the spans, each rendered by RenderInline on a buffer of its own
RenderedAlone(pg, spans) ==
    Concat([i \in 1..Len(spans) |->
              RenderInline(PushNewBuffer(NewConverter), pg, spans[i]).Buf])

\* C23: when GetInlineContent or ToHTML returns, the buffer stack and the active buffer
\* are those of the call; GetInlineContent returns the rendered text of the spans and
\* writes none of it to the active buffer, and for no span it returns the empty string and
\* pushes no buffer.
C23_StackAsFound ==
    (ret.st # NotCalled /\ ~ret.panicked) =>
        /\ c.Buf = input.entry.Buf
        /\ c.bufs = input.entry.bufs
        /\ ret.st = "GetInlineContent" =>
              /\ ret.v = RenderedAlone(page, input.spans)
              /\ input.spans = <<>> => (ret.v = <<>> /\ c.pushes = input.entry.pushes)

\* GetInlineContent returned the text of two spans to a caller with two buffers on the
\* stack and text in the active one
C23_Witness ==
    /\ ret.st = "GetInlineContent" /\ ~ret.panicked
    /\ Len(input.entry.bufs) = 2 /\ input.entry.Buf # <<>>
    /\ Len(input.spans) = 2 /\ ret.v # <<>>

(***************************************************************************)
(* SpecNil: RenderBlock and ToHTML on the pages whose root has up to       *)
(* MaxNilBlocks children, each a text block, a table of contents block or  *)
(* a missing (nil) block; input is the block given to RenderBlock, nil or  *)
(* a child of the root.                                                    *)
(***************************************************************************)
MaxNilBlocks == 3

ChildKinds == {"nil *Block", BlockText, BlockTableOfContents}

ChildOfKind(kind, i) ==
    IF kind = NilBlock.Type THEN NilBlock
    ELSE Block(kind, <<"b">> \o Itoa(i), <<PlainSpan(<<"t">>)>>, <<>>)

InitNil ==
    /\ \E kinds \in SeqsUpTo(ChildKinds, MaxNilBlocks) :
          /\ page = RootPage([i \in 1..Len(kinds) |-> ChildOfKind(kinds[i], i)])
          /\ \E i \in 0..Len(kinds) :
                input = IF i = 0 THEN NilBlock ELSE ChildOfKind(kinds[i], i)
    /\ c = NewConverter
    /\ env = NoEnv
    /\ ret = RetNone
    /\ earlier = <<>>

\* c.RenderBlock(input) with a buffer to write to
CallRenderBlock ==
    /\ ret.st = NotCalled
    /\ c' = RenderBlock(PushNewBuffer(c), Context(page, env), input)
    /\ ret' = [st |-> "RenderBlock", v |-> IF c'.panicked THEN <<>> ELSE c'.Buf,
               err |-> NoErr, panicked |-> c'.panicked]
    /\ UNCHANGED <<page, env, input, earlier>>

NextNil == CallRenderBlock \/ CallToHTML
SpecNil == InitNil /\ [][NextNil]_vars

\* C24: a nil block does not fail the conversion and writes nothing, whether it is given
\* to RenderBlock or is a child of the page that RenderChildren renders and the table of
\* contents scans.
C24_NilBlockSkipped ==
    ret.st # NotCalled =>
        /\ ~ret.panicked
        /\ (ret.st = "RenderBlock" /\ input = NilBlock) => ret.v = <<>>

(***************************************************************************)
(* SpecSchema: RenderCollectionView on the tables of up to MaxCols columns *)
(* and from no row to MaxRows rows in which the schema of the collection   *)
(* has no entry for the key of column input.missing (0: for none).         *)
(***************************************************************************)
SchemaCellTexts == {<<>>, <<"A">>, <<"A",",","B">>}

\* the table without the schema entry of column m
WithoutSchemaOf(tv, m) ==
    [tv EXCEPT !.Collection.CollectionSchema =
                  [k \in (DOMAIN @) \ {ColumnKey(m)} |-> @[k]]]

InitSchema ==
    /\ c = PushNewBuffer(NewConverter)
    /\ \E nCols \in 1..MaxCols, nRows \in 0..MaxRows :
         \E m \in 0..nCols, ftype \in ColumnTypes, text \in SchemaCellTexts :
            /\ input = [missing |-> m, text |-> text]
            /\ page = [Block(BlockPage, <<"p","-","1">>, <<>>, <<>>) EXCEPT
                         !.Content = << [Block(BlockCollectionView, <<"c","v">>, <<>>, <<>>) EXCEPT
                                           !.CollectionViews =
                                              <<WithoutSchemaOf(
                                                    TableView(nCols, nRows, 1, 1, ftype, text),
                                                    m)>>] >>]
    /\ env = NoEnv
    /\ ret = RetNone
    /\ earlier = <<>>

SpecSchema == InitSchema /\ [][NextColl]_vars

\* the value of the cell of row r in the column without schema entry
MissingCellText(r) ==
    IF r = 1 /\ input.missing = 1 THEN input.text ELSE OtherCellText

\* C25: with a column whose key has no schema entry RenderCollectionView does not fail,
\* whatever the number of rows; the header cell of the column has an empty name and its
\* cell in every row is the plain inline content.
C25_MissingSchemaColumn ==
    (ret.st = Returned /\ input.missing # 0) =>
        /\ ~ret.panicked
        /\ Contains(c.Buf, <<"<","t","h",">","<","/","t","h",">">>)
        /\ \A r \in 1..Len(PageRows) :
              Contains(c.Buf, <<"<","t","r"," ","i","d","=","\"">> \o RowID(r) \o <<"\"",">">>)
              /\ Contains(c.Buf, <<"<","t","d"," ","c","l","a","s","s","=","\"","c","e","l","l","-">> \o ColumnKey(input.missing) \o <<"\"",">">>
                                 \o EscapeHTML(MissingCellText(r)) \o <<"<","/","t","d",">">>)
====
